---- MODULE Spec2Model ----
(***************************************************************************)
(* Model of the text helpers of bendelpino/research-code:                  *)
(*   youtube/yt_workflow.py            save_transcripts_to_file,           *)
(*                                     read_transcripts_file,              *)
(*                                     get_video_id_from_url               *)
(*   youtube/specific_yt_transcripts.py convert_ms_to_time                 *)
(*   exa_ai/search.py                   format_result_as_markdown          *)
(* and of the runs of its scripts (their main functions): see the list of  *)
(* specifications.                                                         *)
(*                                                                         *)
(* Specifications, one per routine:                                        *)
(*   SpecParse      read_transcripts_file on arbitrary files               *)
(*   SpecRoundTrip  save_transcripts_to_file, then read_transcripts_file   *)
(*   SpecVideoId    get_video_id_from_url                                  *)
(*   SpecTime       convert_ms_to_time                                     *)
(*   SpecMarkdown   format_result_as_markdown                              *)
(*   SpecTranscribe, SpecTranscribeLive                                    *)
(*                  specific_yt_transcripts.py main, without and with      *)
(*                  fairness of the script's steps                         *)
(*   SpecSearch     search.py main                                         *)
(*   SpecFileName   the file names of the save routines                    *)
(*   SpecScripts    yt_scraper.py, yt_transcripts.py and yt_summaries.py   *)
(*                  run from a shell in any order                          *)
(*   SpecSummaries  yt_summaries.py main                                   *)
(*   SpecWorkflow   yt_workflow.py main                                    *)
(*   SpecSearchCalls  search_exa called again with the same lists          *)
(*   SpecTwins      the second copies of read_transcripts_file and         *)
(*                  get_video_id_from_url beside the first                 *)
(*   SpecVideosFile save_results_to_file, then read_videos_from_file       *)
(* The variables of the routines a specification does not run stay at      *)
(* their idle values.                                                      *)
(*                                                                         *)
(* A Python str is a finite sequence of atoms.  An atom is one character,  *)
(* or one of the literals the code compares against ("Video #",            *)
(* "Title: ", "URL: ", "TRANSCRIPT:") taken as a unit.  A dict is a        *)
(* function whose DOMAIN is its key set.                                   *)
(***************************************************************************)
EXTENDS Integers, Sequences, FiniteSets, TLC

VARIABLES
    \* read_transcripts_file
    file_exists,         \* os.path.exists(filename)
    file,                \* content of results/<term>_transcripts.txt
    lines,               \* what f.readlines() returned
    idx,                 \* position of the for loop in lines (next line to visit)
    videos,              \* list of records to return
    current_video,       \* the accumulator dict
    current_transcript,  \* list of transcript lines of the accumulator
    reading_transcript,  \* the "accumulating free text" flag
    error,               \* the exception that left the function, or NoError
    \* save_transcripts_to_file
    in_videos,           \* the videos argument
    fetched,             \* what get_transcript returned for each video written
    api_log,             \* what YouTubeTranscriptApi did for each video so far
    \* get_video_id_from_url
    url, video_id,
    \* convert_ms_to_time
    ms, time_str,
    \* format_result_as_markdown
    results, markdown,
    \* a run of a script
    script,              \* the script that runs
    env,                 \* the API keys set (to a non-empty value) in the environment
    has_arg,             \* a positional command line argument was given
    term,                \* the search term or query the user gave
    effects,             \* what the run did so far: prompt, download, remote, write
    printed,             \* the messages printed so far
    outcome,             \* how the run ended, "running" until then
    fs,                  \* the paths of the files the scripts wrote
    \* specific_yt_transcripts.py: poll_transcription and what main does with it
    job,                 \* status of the transcription job at the remote service
    response,            \* result = response.json() of the latest status check
    poll_result,         \* what poll_transcription returned to main
    polls,               \* status checks made so far (counted up to MaxPolls)
    slept,               \* seconds slept since the latest status check
    raw_transcript,      \* what generate_markdown returned
    \* search.py
    exclude_domains,     \* the list object given as --exclude-domains, or None
    search_params,       \* the parameters search_exa built for the Exa request
    out_format,          \* --format
    include_domains,     \* the list given as --include-domains, or None
    calls,               \* calls of search_exa that got past the key lookup
    given,               \* exclude_domains as it was before the first call
    \* the analysis loop of yt_summaries.py and yt_workflow.py
    analyses,            \* the list analyses
    timeline,            \* the calls of analyze_transcript and the sleeps, in order
    raised_in,           \* the step of main in which an exception was raised
    summaries,           \* content of results/<term>_summaries.md
    \* the same call made to the other copy of a duplicated routine
    twin,                \* its locals, with its control point and its result
    \* control point of the routine being run
    pc

readerVars == <<file_exists, file, lines, idx, videos, current_video,
                current_transcript, reading_transcript, error>>
writerVars == <<in_videos, fetched, api_log>>
idVars     == <<url, video_id>>
timeVars   == <<ms, time_str>>
mdVars     == <<results, markdown>>
textVars   == <<readerVars, writerVars, idVars, timeVars, mdVars>>
runVars    == <<script, env, has_arg, term, effects, printed, outcome, fs>>
pollVars   == <<job, response, poll_result, polls, slept, raw_transcript>>
\* the variables of the script runs: the text helpers leave them alone
exaVars    == <<exclude_domains, search_params, out_format, include_domains,
               calls, given>>
loopVars   == <<analyses, timeline, raised_in, summaries>>
twinVars   == <<twin>>
sysVars    == <<runVars, pollVars, exaVars, loopVars, twinVars>>
\* what no step of specific_yt_transcripts.py changes, and of search.py
restT      == <<textVars, exaVars, loopVars, twinVars>>
restS      == <<textVars, pollVars, loopVars, twinVars>>
vars == <<textVars, sysVars, pc>>

-----------------------------------------------------------------------------
(* Bounds of the model.                                                    *)
MaxLines   == 4     \* lines of an arbitrary transcripts file
MaxBlocks  == 2     \* blocks of a transcripts file made of whole blocks
MaxVideos  == 2     \* records handed to save_transcripts_to_file
MaxSeconds == 3700  \* convert_ms_to_time is run on every second up to this
MaxResults == 2     \* results handed to format_result_as_markdown
MaxPolls   == 3     \* status checks of poll_transcription that are counted
MaxTermLen == 3     \* characters of a typed search term
MaxCalls   == 3     \* calls of search_exa with the same list

-----------------------------------------------------------------------------
(* Python values.                                                          *)
None    == <<"<None>">>   \* the value None, apart from every str
NoError == "NoError"
NL      == "\n"

\* str.isspace() characters that occur in the model
Whitespace == {" ", NL, "\t"}

\* "c" * n
Rep(c, n) == [i \in 1..n |-> c]

\* s.startswith(p)
StartsWith(s, p) == Len(s) >= Len(p) /\ SubSeq(s, 1, Len(p)) = p

\* s[n:]
DropFirst(s, n) == SubSeq(s, n + 1, Len(s))

\* s.lstrip(), s.rstrip(), s.strip()
LStrip(s) ==
    IF \A i \in 1..Len(s) : s[i] \in Whitespace THEN <<>>
    ELSE SubSeq(s, CHOOSE i \in 1..Len(s) :
                       /\ s[i] \notin Whitespace
                       /\ \A k \in 1..(i - 1) : s[k] \in Whitespace,
                Len(s))
RStrip(s) ==
    IF \A i \in 1..Len(s) : s[i] \in Whitespace THEN <<>>
    ELSE SubSeq(s, 1, CHOOSE i \in 1..Len(s) :
                          /\ s[i] \notin Whitespace
                          /\ \A k \in (i + 1)..Len(s) : s[k] \in Whitespace)
Strip(s) == RStrip(LStrip(s))

\* sep.join(list), sep one character
RECURSIVE Join(_, _)
Join(sep, list) ==
    IF list = <<>> THEN <<>>
    ELSE IF Len(list) = 1 THEN list[1]
    ELSE list[1] \o <<sep>> \o Join(sep, Tail(list))

\* the concatenation of a list of strings (successive f.write calls)
RECURSIVE Concat(_)
Concat(list) == IF list = <<>> THEN <<>> ELSE Head(list) \o Concat(Tail(list))

\* s.split(sep), sep one atom
SplitOn(s, sep) ==
    LET cuts == { i \in 1..Len(s) : s[i] = sep }
        CutAt(k) == IF k = 0 THEN 0
                    ELSE IF k = Cardinality(cuts) + 1 THEN Len(s) + 1
                    ELSE CHOOSE c \in cuts : Cardinality({ x \in cuts : x <= c }) = k
    IN  [k \in 1..(Cardinality(cuts) + 1) |-> SubSeq(s, CutAt(k - 1) + 1, CutAt(k) - 1)]

\* f.readlines(): the text cut after every newline, the newlines kept
LineEnds(text) ==
    { i \in 1..Len(text) : text[i] = NL \/ i = Len(text) }
ReadLines(text) ==
    LET ends == LineEnds(text)
        \* the k-th line end, and where the k-th line starts
        EndOf(k) == CHOOSE e \in ends : Cardinality({ x \in ends : x <= e }) = k
        StartOf(k) == IF k = 1 THEN 1 ELSE EndOf(k - 1) + 1
    IN  [k \in 1..Cardinality(ends) |-> SubSeq(text, StartOf(k), EndOf(k))]

\* str(n) for n >= 0, one atom per digit
Digit(d) == CASE d = 0 -> "0" [] d = 1 -> "1" [] d = 2 -> "2" [] d = 3 -> "3"
              [] d = 4 -> "4" [] d = 5 -> "5" [] d = 6 -> "6" [] d = 7 -> "7"
              [] d = 8 -> "8" [] d = 9 -> "9"
RECURSIVE Str(_)
Str(n) == IF n < 10 THEN <<Digit(n)>> ELSE Str(n \div 10) \o <<Digit(n % 10)>>

\* {} and d[k] = v on a dict
EmptyDict == [k \in {} |-> <<>>]
DictSet(d, k, v) == [x \in DOMAIN d \cup {k} |-> IF x = k THEN v ELSE d[x]]
\* bool(d) of a dict, bool(l) of a list
Truthy(x) == DOMAIN x # {}

-----------------------------------------------------------------------------
(* The values the variables of a routine have while it does not run.       *)

NoResponse == [status |-> "<unset>", serial |-> 0]

RunIdle ==
    /\ script = "none" /\ env = {} /\ has_arg = FALSE /\ term = <<>>
    /\ effects = {} /\ printed = {} /\ outcome = "idle" /\ fs = {}
PollIdle ==
    /\ job = "none" /\ response = NoResponse /\ poll_result = NoResponse
    /\ polls = 0 /\ slept = 0 /\ raw_transcript = ""
ExaIdle ==
    /\ exclude_domains = None
    /\ search_params = [exclude_domains |-> None, include_domains |-> None]
    /\ out_format = "markdown"
    /\ include_domains = None /\ calls = 0 /\ given = None
LoopIdle ==
    /\ analyses = <<>> /\ timeline = <<>> /\ raised_in = "none"
    /\ summaries = <<>>
\* the other copy is not run
TwinOff  == [pc |-> "off"]
TwinIdle == twin = TwinOff
SysIdle == RunIdle /\ PollIdle /\ ExaIdle /\ LoopIdle /\ TwinIdle

-----------------------------------------------------------------------------
(* read_transcripts_file (yt_workflow.py 150-186; yt_summaries.py 58-106   *)
(* is the same text).                                                      *)

VideoMark      == <<"Video #">>
TitlePrefix    == <<"Title: ">>
UrlPrefix      == <<"URL: ">>
TranscriptMark == <<"TRANSCRIPT:">>
SeparatorChar  == <<"=">>

\* line = line.strip() of the line the loop is at
CurLine == Strip(lines[idx])

\* if current_video and current_transcript:
ShouldFlushAny(cv, ct) == Truthy(cv)
ShouldFlush(cv, ct) == Truthy(cv) /\ Truthy(ct)

\* a flush by videos.insert(0, ...)
FlushedFirst(vs, cv, ct) ==
    IF ShouldFlush(cv, ct)
    THEN <<DictSet(cv, "transcript", Join(NL, ct))>> \o vs
    ELSE vs

\* current_video["transcript"] = "\n".join(current_transcript)
\* videos.append(current_video.copy())
Flushed(vs, cv, ct) ==
    IF ShouldFlush(cv, ct)
    THEN Append(vs, DictSet(cv, "transcript", Join(NL, ct)))
    ELSE vs

\* elif reading_transcript and line and not line.startswith("="):
IsTextLine(rt, line) == rt /\ line # <<>> /\ ~StartsWith(line, SeparatorChar)

ReaderIdle ==
    /\ file_exists = FALSE /\ file = <<>> /\ lines = <<>> /\ idx = 0
    /\ videos = <<>>
    /\ current_video = EmptyDict /\ current_transcript = <<>>
    /\ reading_transcript = FALSE /\ error = NoError

\* if not os.path.exists(filename): raise FileNotFoundError(...)
RaiseIfMissing ==
    /\ pc = "read" /\ ~file_exists
    /\ pc' = "raised" /\ error' = "FileNotFoundError"
    /\ UNCHANGED <<sysVars, file_exists, file, lines, idx, videos, current_video, current_transcript,
                   reading_transcript, writerVars, idVars, timeVars, mdVars>>

\* videos = [] ... lines = f.readlines()
OpenAndReadLines ==
    /\ pc = "read" /\ file_exists
    /\ lines' = ReadLines(file)
    /\ idx' = 1
    /\ videos' = <<>> /\ current_video' = EmptyDict
    /\ current_transcript' = <<>> /\ reading_transcript' = FALSE
    /\ pc' = "scan"
    /\ UNCHANGED <<sysVars, file_exists, file, error, writerVars, idVars, timeVars, mdVars>>

AtLine == pc = "scan" /\ idx <= Len(lines)

\* a Video # branch that forgets reading_transcript = False
OnVideoLineKeepFlag ==
    /\ pc = "scan" /\ idx <= Len(lines)
    /\ StartsWith(Strip(lines[idx]), VideoMark)
    /\ videos' = Flushed(videos, current_video, current_transcript)
    /\ current_video' = EmptyDict
    /\ current_transcript' = <<>>
    /\ idx' = idx + 1
    /\ UNCHANGED <<sysVars, file_exists, file, lines, reading_transcript, error,
                   writerVars, idVars, timeVars, mdVars, pc>>

\* if line.startswith("Video #"):
OnVideoLine ==
    /\ AtLine /\ StartsWith(CurLine, VideoMark)
    /\ videos' = Flushed(videos, current_video, current_transcript)
    /\ current_video' = EmptyDict
    /\ current_transcript' = <<>>
    /\ reading_transcript' = FALSE
    /\ idx' = idx + 1
    /\ UNCHANGED <<sysVars, file_exists, file, lines, error, writerVars, idVars, timeVars, mdVars, pc>>

\* elif line.startswith("Title: "): current_video["title"] = line[7:]
OnTitleLine ==
    /\ AtLine /\ ~StartsWith(CurLine, VideoMark)
    /\ StartsWith(CurLine, TitlePrefix)
    /\ current_video' = DictSet(current_video, "title",
                                DropFirst(CurLine, Len(TitlePrefix)))
    /\ idx' = idx + 1
    /\ UNCHANGED <<sysVars, file_exists, file, lines, videos, current_transcript, reading_transcript,
                   error, writerVars, idVars, timeVars, mdVars, pc>>

\* elif line.startswith("URL: "): current_video["url"] = line[5:]
OnUrlLine ==
    /\ AtLine /\ ~StartsWith(CurLine, VideoMark)
    /\ ~StartsWith(CurLine, TitlePrefix)
    /\ StartsWith(CurLine, UrlPrefix)
    /\ current_video' = DictSet(current_video, "url",
                                DropFirst(CurLine, Len(UrlPrefix)))
    /\ idx' = idx + 1
    /\ UNCHANGED <<sysVars, file_exists, file, lines, videos, current_transcript, reading_transcript,
                   error, writerVars, idVars, timeVars, mdVars, pc>>

IsFieldLine(line) ==
    \/ StartsWith(line, VideoMark)
    \/ StartsWith(line, TitlePrefix)
    \/ StartsWith(line, UrlPrefix)

\* elif line == "TRANSCRIPT:": reading_transcript = True
OnTranscriptMark ==
    /\ AtLine /\ ~IsFieldLine(CurLine)
    /\ CurLine = TranscriptMark
    /\ reading_transcript' = TRUE
    /\ idx' = idx + 1
    /\ UNCHANGED <<sysVars, file_exists, file, lines, videos, current_video, current_transcript,
                   error, writerVars, idVars, timeVars, mdVars, pc>>

\* elif reading_transcript and line and not line.startswith("="):
\*     current_transcript.append(line)
OnTextLine ==
    /\ AtLine /\ ~IsFieldLine(CurLine) /\ CurLine # TranscriptMark
    /\ IsTextLine(reading_transcript, CurLine)
    /\ current_transcript' = Append(current_transcript, CurLine)
    /\ idx' = idx + 1
    /\ UNCHANGED <<sysVars, file_exists, file, lines, videos, current_video, reading_transcript,
                   error, writerVars, idVars, timeVars, mdVars, pc>>

\* a strict scan: else: raise ValueError(...)
OnOtherLineRaises ==
    /\ AtLine /\ ~IsFieldLine(CurLine) /\ CurLine # TranscriptMark
    /\ ~IsTextLine(reading_transcript, CurLine)
    /\ pc' = "raised" /\ error' = "ValueError"
    /\ UNCHANGED <<sysVars, file_exists, file, lines, idx, videos, current_video,
                   current_transcript, reading_transcript, writerVars, idVars,
                   timeVars, mdVars>>

\* no branch of the if/elif chain taken
OnOtherLine ==
    /\ AtLine /\ ~IsFieldLine(CurLine) /\ CurLine # TranscriptMark
    /\ ~IsTextLine(reading_transcript, CurLine)
    /\ idx' = idx + 1
    /\ UNCHANGED <<sysVars, file_exists, file, lines, videos, current_video, current_transcript,
                   reading_transcript, error, writerVars, idVars, timeVars,
                   mdVars, pc>>

\* after the loop: the last accumulator, then return videos
FinishScan ==
    /\ pc = "scan" /\ idx > Len(lines)
    /\ videos' = Flushed(videos, current_video, current_transcript)
    /\ pc' = "done"
    /\ UNCHANGED <<sysVars, file_exists, file, lines, idx, current_video, current_transcript,
                   reading_transcript, error, writerVars, idVars, timeVars,
                   mdVars>>

ReaderNext ==
    \/ RaiseIfMissing
    \/ OpenAndReadLines
    \/ OnVideoLine
    \/ OnTitleLine
    \/ OnUrlLine
    \/ OnTranscriptMark
    \/ OnTextLine
    \/ OnOtherLine
    \/ FinishScan

-----------------------------------------------------------------------------
(* get_video_id_from_url (yt_workflow.py 79-86; yt_transcripts.py 42-51 is *)
(* the same text).  URLs are sequences of single characters.               *)

IdLen == 11   \* {11} of both patterns

\* [0-9A-Za-z_-]
IdChars ==
    { "0", "1", "2", "3", "4", "5", "6", "7", "8", "9",
      "A", "B", "C", "D", "E", "F", "G", "H", "I", "J", "K", "L", "M",
      "N", "O", "P", "Q", "R", "S", "T", "U", "V", "W", "X", "Y", "Z",
      "a", "b", "c", "d", "e", "f", "g", "h", "i", "j", "k", "l", "m",
      "n", "o", "p", "q", "r", "s", "t", "u", "v", "w", "x", "y", "z",
      "_", "-" }

\* the literal p is in u at position i
LiteralAt(u, i, p) ==
    i >= 1 /\ i + Len(p) - 1 <= Len(u) /\ SubSeq(u, i, i + Len(p) - 1) = p

\* ([0-9A-Za-z_-]{11}) matches at position j
IdRunAt(u, j) ==
    j >= 1 /\ j + IdLen - 1 <= Len(u) /\ \A k \in j..(j + IdLen - 1) : u[k] \in IdChars

\* where group 1 starts if r"(?:v=|/)([0-9A-Za-z_-]{11}).*" matches at i, else 0
Pattern1GroupAt(u, i) ==
    IF LiteralAt(u, i, <<"v", "=">>) /\ IdRunAt(u, i + 2) THEN i + 2
    ELSE IF LiteralAt(u, i, <<"/">>) /\ IdRunAt(u, i + 1) THEN i + 1
    ELSE 0

\* where group 1 starts if r"youtu.be/([0-9A-Za-z_-]{11})" matches at i, else 0
\* (the unescaped . is any character but a newline)
Pattern2GroupAt(u, i) ==
    IF /\ LiteralAt(u, i, <<"y", "o", "u", "t", "u">>)
       /\ i + 5 <= Len(u) /\ u[i + 5] # NL
       /\ LiteralAt(u, i + 6, <<"b", "e", "/">>)
       /\ IdRunAt(u, i + 9)
    THEN i + 9 ELSE 0

\* re.search(pattern, url): the leftmost match; match.group(1), or None.
\* starts[i] is where group 1 starts if the pattern matches at i, else 0.
SearchGroup1(u, starts) ==
    LET hits == { i \in 1..Len(u) : starts[i] # 0 }
    IN  IF hits = {} THEN None
        ELSE LET i == CHOOSE h \in hits : \A k \in hits : h <= k
             IN  SubSeq(u, starts[i], starts[i] + IdLen - 1)
SearchPattern1(u) == SearchGroup1(u, [i \in 1..Len(u) |-> Pattern1GroupAt(u, i)])
SearchPattern2(u) == SearchGroup1(u, [i \in 1..Len(u) |-> Pattern2GroupAt(u, i)])

\* for pattern in patterns: ... return match.group(1) ... return None
get_video_id_from_url(u) ==
    IF SearchPattern1(u) # None THEN SearchPattern1(u)
    ELSE IF SearchPattern2(u) # None THEN SearchPattern2(u)
    ELSE None

GetVideoId ==
    /\ pc = "id_call"
    /\ video_id' = get_video_id_from_url(url)
    /\ pc' = "id_done"
    /\ UNCHANGED <<sysVars, url, readerVars, writerVars, timeVars, mdVars>>

\* the URLs the extractor is run on: prefix, id or other text, suffix
UrlPrefixes == {
    <<"h", "t", "t", "p", "s", ":", "/", "/", "w", "w", "w", ".", "y", "o", "u", "t", "u", "b", "e", ".", "c", "o", "m", "/", "w", "a", "t", "c", "h", "?", "v", "=">>,
    <<"h", "t", "t", "p", "s", ":", "/", "/", "m", ".", "y", "o", "u", "t", "u", "b", "e", ".", "c", "o", "m", "/", "w", "a", "t", "c", "h", "?", "v", "=">>,
    <<"h", "t", "t", "p", "s", ":", "/", "/", "w", "w", "w", ".", "y", "o", "u", "t", "u", "b", "e", ".", "c", "o", "m", "/", "a", "t", "t", "r", "i", "b", "u", "t", "i", "o", "n", "_", "l", "i", "n", "k", "?", "u", "=", "/", "w", "a", "t", "c", "h", "?", "v", "=">>,
    <<"h", "t", "t", "p", "s", ":", "/", "/", "y", "o", "u", "t", "u", ".", "b", "e", "/">>,
    <<"y", "o", "u", "t", "u", ".", "b", "e", "/">>,
    <<"h", "t", "t", "p", "s", ":", "/", "/", "e", "x", "a", "m", "p", "l", "e", ".", "c", "o", "m", "/">>,
    <<"h", "t", "t", "p", "s", ":", "/", "/", "v", "i", "m", "e", "o", ".", "c", "o", "m", "/", "c", "h", "a", "n", "n", "e", "l", "s", "/">>,
    <<"h", "e", "l", "l", "o", " ", "w", "o", "r", "l", "d", " ">>,
    <<>> }
UrlBodies == {
    <<"d", "Q", "w", "4", "w", "9", "W", "g", "X", "c", "Q">>,
    <<"a", "b", "c", "-", "D", "E", "F", "_", "1", "2", "3">>,
    <<"s", "t", "a", "f", "f", "p", "i", "c", "k", "s", "-", "2", "0", "2", "4">>,
    <<"s", "h", "o", "r", "t">>,
    <<>> }
UrlSuffixes == {
    <<>>,
    <<"&", "t", "=", "1", "0", "s">>,
    <<"?", "s", "i", "=", "a", "b", "c">> }
UrlSet == { p \o b \o x : p \in UrlPrefixes, b \in UrlBodies, x \in UrlSuffixes }

-----------------------------------------------------------------------------
(* get_transcript and save_transcripts_to_file (yt_workflow.py 88-120;     *)
(* yt_transcripts.py 54-104 is the same text).                             *)

RuleWidth == 80   \* "=" * 80, "-" * 80

NoVideoIdText == <<"Could not extract video ID from URL">>
\* a get_transcript that hands back "" when the API raises
FetchFailedEmpty(e) == <<>>
FetchFailedText(e) == <<"Could not fetch transcript: ">> \o e

\* what TextFormatter().format_transcript(...) may hand back for a video,
\* and what str(e) may be when YouTubeTranscriptApi.get_transcript raises
ApiTranscripts == {
    <<"x">>,
    <<"x", NL, "y">>,
    <<"x", NL, "Title: ", "z">>,
    <<"=", "x">>,
    <<" ">> }
ApiErrors == { <<"e">>, <<"e", NL, NL, "f">> }

\* YouTubeTranscriptApi.get_transcript and the formatter hand back a text,
\* or one of them raises
NotCalled   == <<"not called">>
ApiOutcomes == { <<"ok", t>> : t \in ApiTranscripts }
                   \cup { <<"raises", e>> : e \in ApiErrors }

\* a get_transcript that hands back whatever came from the API
GetTranscriptRaw(video_url, api) == api[2]

\* get_transcript(video_url) when the API, if called, does this
GetTranscriptOf(video_url, api) ==
    IF get_video_id_from_url(video_url) = None THEN NoVideoIdText
    ELSE IF api[1] = "ok" THEN api[2]
    ELSE FetchFailedText(api[2])

\* get_transcript(video_url): every value it can return
get_transcript(video_url) ==
    { GetTranscriptOf(video_url, api) : api \in ApiOutcomes }

\* the two writes before the loop
FileHeader(search_term) ==
    <<"YouTube Video Transcripts for Search Term: '">> \o search_term
        \o <<"'", NL>> \o Rep("=", RuleWidth) \o <<NL, NL>>

\* the writes of one iteration of the loop
VideoBlock(i, video, transcript) ==
    <<"Video #">> \o Str(i) \o <<NL>>
        \o <<"Title: ">> \o video["title"] \o <<NL>>
        \o <<"URL: ">> \o video["url"] \o <<NL>>
        \o Rep("-", RuleWidth) \o <<NL, NL>>
        \o <<"TRANSCRIPT:", NL>>
        \o transcript
        \o <<NL>> \o Rep("=", RuleWidth) \o <<NL, NL>>

SearchTerm == <<"q">>

\* with open(filename, "w") ...: the header
WriteHeader ==
    /\ pc = "save"
    /\ file_exists' = TRUE
    /\ file' = FileHeader(SearchTerm)
    /\ pc' = "save_loop"
    /\ UNCHANGED <<sysVars, lines, idx, videos, current_video, current_transcript,
                   reading_transcript, error, writerVars, idVars, timeVars, mdVars>>

\* for i, video in enumerate(videos, 1): one iteration
WriteVideo ==
    /\ pc = "save_loop" /\ Len(fetched) < Len(in_videos)
    /\ LET i == Len(fetched) + 1
       IN  \E api \in ApiOutcomes :
              LET transcript == GetTranscriptOf(in_videos[i]["url"], api)
              IN  /\ transcript \in get_transcript(in_videos[i]["url"])
                  /\ file' = file \o VideoBlock(i, in_videos[i], transcript)
                  /\ fetched' = Append(fetched, transcript)
                  /\ api_log' = Append(api_log,
                         IF get_video_id_from_url(in_videos[i]["url"]) = None
                         THEN NotCalled ELSE api)
    /\ UNCHANGED <<sysVars, file_exists, lines, idx, videos, current_video,
                   current_transcript, reading_transcript, error, in_videos,
                   idVars, timeVars, mdVars, pc>>

\* return filename; main then calls read_transcripts_file(search_term)
SaveDone ==
    /\ pc = "save_loop" /\ Len(fetched) = Len(in_videos)
    /\ pc' = "read"
    /\ UNCHANGED <<sysVars, readerVars, writerVars, idVars, timeVars, mdVars>>

\* the videos handed to save_transcripts_to_file
InTitles == { <<"a">>, <<"b">> }
InUrls   == { <<"h", "t", "t", "p", "s", ":", "/", "/", "y", "o", "u", "t", "u", ".", "b", "e", "/", "d", "Q", "w", "4", "w", "9", "W", "g", "X", "c", "Q">>, <<"u">> }
InVideoSet == { [title |-> t, url |-> u] : t \in InTitles, u \in InUrls }

-----------------------------------------------------------------------------
(* convert_ms_to_time (specific_yt_transcripts.py 85-92).                  *)

\* int(a / b): the quotient cut towards zero
IntDiv(a, b) == IF a >= 0 THEN a \div b ELSE -((-a) \div b)

\* divmod(a, b)
DivMod(a, b) == <<a \div b, a % b>>

\* f"{n:02}", n >= 0
Pad2NoPad(n) == Str(n)
Pad2(n) == IF n < 10 THEN <<"0">> \o Str(n) ELSE Str(n)

convert_ms_to_time(t) ==
    LET seconds == IntDiv(t, 1000)
        m0 == DivMod(seconds, 60)[1]
        s  == DivMod(seconds, 60)[2]
        h  == DivMod(m0, 60)[1]
        m  == DivMod(m0, 60)[2]
    IN  IF h > 0
        THEN Pad2(h) \o <<":">> \o Pad2(m) \o <<":">> \o Pad2(s)
        ELSE Pad2(m) \o <<":">> \o Pad2(s)

ConvertMs ==
    /\ pc = "time_call"
    /\ time_str' = convert_ms_to_time(ms)
    /\ pc' = "time_done"
    /\ UNCHANGED <<sysVars, ms, readerVars, writerVars, idVars, mdVars>>

\* the arguments: the first and the last millisecond of every second up to
\* MaxSeconds, and the ends of the two- and three-digit hour ranges
MsSet ==
    { sec * 1000 + r : sec \in 0..MaxSeconds, r \in {0, 999} }
        \cup { 35999999, 36000000, 359999999, 360000000 }

-----------------------------------------------------------------------------
(* format_result_as_markdown (search.py 34-75).  A result is a dict; a     *)
(* value is a str or None.                                                 *)

PreviewLimit == 500   \* text[:500]

\* result.get(key, default)
DictGet(d, k, default) == IF k \in DOMAIN d THEN d[k] ELSE default

\* f"{v}" of a str or of None
Render(v) == IF v = None THEN <<"None">> ELSE v

\* bool(v) of a str or of None
StrTruthy(v) == v # None /\ v # <<>>

\* s.replace("Z", "+00:00")
ReplaceZ(s) == [i \in 1..Len(s) |-> IF s[i] = "Z" THEN "+00:00" ELSE s[i]]

DigitChars == {"0", "1", "2", "3", "4", "5", "6", "7", "8", "9"}
DigitVal(c) == CHOOSE d \in 0..9 : Digit(d) = c
RECURSIVE ParseNat(_)
ParseNat(ds) ==
    IF ds = <<>> THEN 0
    ELSE ParseNat(SubSeq(ds, 1, Len(ds) - 1)) * 10 + DigitVal(ds[Len(ds)])
AllDigits(ds) == \A i \in 1..Len(ds) : ds[i] \in DigitChars

\* the time-of-day parts fromisoformat accepts, each one atom
IsoTimes == { "T00:00:00", "T12:30:00.000" }

\* datetime.fromisoformat(s) succeeds: YYYY-MM-DD, then nothing, or a time
\* of day, or a time of day and the offset +00:00
IsIsoFormat(s) ==
    /\ Len(s) >= 10
    /\ AllDigits(SubSeq(s, 1, 4)) /\ s[5] = "-"
    /\ AllDigits(SubSeq(s, 6, 7)) /\ s[8] = "-"
    /\ AllDigits(SubSeq(s, 9, 10))
    /\ ParseNat(SubSeq(s, 1, 4)) >= 1
    /\ ParseNat(SubSeq(s, 6, 7)) \in 1..12
    /\ ParseNat(SubSeq(s, 9, 10)) \in 1..28
    /\ \/ Len(s) = 10
       \/ Len(s) = 11 /\ s[11] \in IsoTimes
       \/ Len(s) = 12 /\ s[11] \in IsoTimes /\ s[12] = "+00:00"

MonthName(m) ==
    CASE m = 1 -> "January" [] m = 2 -> "February" [] m = 3 -> "March"
      [] m = 4 -> "April" [] m = 5 -> "May" [] m = 6 -> "June"
      [] m = 7 -> "July" [] m = 8 -> "August" [] m = 9 -> "September"
      [] m = 10 -> "October" [] m = 11 -> "November" [] m = 12 -> "December"

\* date_obj.strftime("%B %d, %Y")
StrftimeBdY(s) ==
    <<MonthName(ParseNat(SubSeq(s, 6, 7))), " ">>
        \o Pad2(ParseNat(SubSeq(s, 9, 10))) \o <<",", " ">>
        \o SubSeq(s, 1, 4)

\* lines 45-53: the date as it is printed
FormatDate(result) ==
    LET published_date == DictGet(result, "published_date", <<"Unknown date">>)
    IN  IF StrTruthy(published_date) /\ published_date # <<"Unknown date">>
        THEN IF IsIsoFormat(ReplaceZ(published_date))
             THEN StrftimeBdY(ReplaceZ(published_date))
             ELSE published_date
        ELSE published_date

\* lines 56-61: the preview
TextPreview(result) ==
    LET text == DictGet(result, "text", <<>>)
    IN  IF StrTruthy(text)
        THEN IF Len(text) > PreviewLimit
             THEN SubSeq(text, 1, PreviewLimit) \o <<"...">>
             ELSE text
        ELSE <<"No text content available">>

\* enumerate(results, 1)
EnumerateFromZero(rs) == [i \in 1..Len(rs) |-> <<i - 1, rs[i]>>]
Enumerate1(rs) == [i \in 1..Len(rs) |-> <<i, rs[i]>>]

\* lines 66-72: the section of one result
ResultSection(i, result) ==
    LET title  == DictGet(result, "title", <<"No Title">>)
        u      == DictGet(result, "url", <<"No URL">>)
        source == DictGet(result, "source", <<"Unknown source">>)
    IN  <<"## ">> \o Str(i) \o <<". ">> \o Render(title) \o <<NL, NL>>
        \o <<"**URL:** [">> \o Render(u) \o <<"](">> \o Render(u) \o <<")", NL, NL>>
        \o <<"**Date:** ">> \o Render(FormatDate(result)) \o <<NL, NL>>
        \o <<"**Source:** ">> \o Render(source) \o <<NL, NL>>
        \o <<"**Preview:**", NL, NL>> \o TextPreview(result) \o <<NL, NL>>
        \o <<"---", NL, NL>>

\* datetime.now().strftime(...): some time stamp
Now   == <<"2026-01-01 00:00:00">>
Query == <<"q">>

format_result_as_markdown(rs, query) ==
    <<"# Search Results: ">> \o query \o <<NL, NL>>
        \o <<"*Search performed on: ">> \o Now \o <<"*", NL, NL>>
        \o Concat([k \in 1..Len(rs) |->
                      ResultSection(Enumerate1(rs)[k][1], Enumerate1(rs)[k][2])])
        \o <<"*Total results: ">> \o Str(Len(rs)) \o <<"*">>

FormatMarkdown ==
    /\ pc = "md_call"
    /\ markdown' = format_result_as_markdown(results, Query)
    /\ pc' = "md_done"
    /\ UNCHANGED <<sysVars, results, readerVars, writerVars, idVars, timeVars>>

\* The results the formatter is run on.  A field is absent (no key), None
\* (as in result.__dict__ of a result that lacks it) or a str.
Absent == <<"<absent>">>
FieldKeys == {"title", "url", "published_date", "text", "source"}
MkResult(f) == [k \in { x \in FieldKeys : f[x] # Absent } |-> f[k]]
IsoDateZ  == <<"2", "0", "2", "4", "-", "0", "3", "-", "0", "5">> \o <<"T12:30:00.000", "Z">>
LongText  == Rep("x", PreviewLimit + 1)
FieldValues(k) ==
    CASE k = "title" -> { Absent, None, <<"T">> }
      [] k = "url" -> { Absent, None, <<"u">> }
      [] k = "published_date" -> { Absent, None, IsoDateZ, <<"n", "/", "a">> }
      [] k = "text" -> { Absent, None, <<>>, <<"t">>, LongText }
      [] k = "source" -> { Absent, None, <<"s">> }
AllResults ==
    { MkResult(f) : f \in { g \in [FieldKeys -> UNION { FieldValues(k) : k \in FieldKeys }] :
                              \A k \in FieldKeys : g[k] \in FieldValues(k) } }
SomeResults == {
    MkResult([k \in FieldKeys |-> Absent]),
    MkResult([k \in FieldKeys |-> None]),
    [title |-> <<"T">>, url |-> <<"u">>, published_date |-> IsoDateZ,
     text |-> <<"t">>, source |-> <<"s">>],
    [title |-> <<"T">>, text |-> LongText] }
ResultLists ==
    { <<r>> : r \in AllResults }
        \cup UNION { [1..n -> SomeResults] : n \in 0..MaxResults }

-----------------------------------------------------------------------------
(* The files the reader is run on: every sequence of at most MaxLines     *)
(* lines, each one of LineKinds; every sequence of at most MaxBlocks       *)
(* blocks, each one of BlockKinds; and the missing file.                   *)

LineKinds == {
    <<"Video #", "1", NL>>,
    <<"Title: ", "a", NL>>,
    <<"URL: ", "u", NL>>,
    <<"TRANSCRIPT:", NL>>,
    <<" ", "x", NL>>,
    <<"=", "=", NL>>,
    <<NL>> }

BlockKinds == {
    \* a whole record
    <<"Video #", "1", NL, "Title: ", "a", NL, "URL: ", "u", NL, "-", "-", NL, NL,
      "TRANSCRIPT:", NL, "x", NL, "=", "=", NL, NL>>,
    \* a whole record of two transcript lines
    <<"Video #", "2", NL, "Title: ", "b", NL, "URL: ", "v", NL, "-", "-", NL, NL,
      "TRANSCRIPT:", NL, "y", " ", NL, "\t", "z", NL, "=", "=", NL, NL>>,
    \* no TRANSCRIPT: section
    <<"Video #", "3", NL, "Title: ", "c", NL, "URL: ", "w", NL, "-", "-", NL, NL>>,
    \* a TRANSCRIPT: section with no text
    <<"Video #", "4", NL, "Title: ", "d", NL, "URL: ", "w", NL,
      "TRANSCRIPT:", NL, NL, "=", "=", NL, NL>>,
    \* no URL line
    <<"Video #", "5", NL, "Title: ", "e", NL, "TRANSCRIPT:", NL, "x", NL>>,
    \* a transcript with a line that starts like a field
    <<"Video #", "6", NL, "Title: ", "f", NL, "URL: ", "u", NL,
      "TRANSCRIPT:", NL, "x", NL, "Title: ", "g", NL>>,
    \* the head of the file: no "Video #" line
    <<"h", NL, "=", "=", NL, NL>> }

SeqsUpTo(S, n) == UNION { [1..k -> S] : k \in 0..n }
FilesOfLines  == { Concat(ls) : ls \in SeqsUpTo(LineKinds, MaxLines) }
FilesOfBlocks == { Concat(bs) : bs \in SeqsUpTo(BlockKinds, MaxBlocks) }

WriterIdle == in_videos = <<>> /\ fetched = <<>> /\ api_log = <<>>
IdIdle     == url = <<>> /\ video_id = None
TimeIdle   == ms = 0 /\ time_str = <<>>
MdIdle     == results = <<>> /\ markdown = <<>>
TextIdle   == ReaderIdle /\ WriterIdle /\ IdIdle /\ TimeIdle /\ MdIdle

InitParse ==
    /\ \/ file_exists = TRUE /\ file \in FilesOfLines \cup FilesOfBlocks
       \/ file_exists = FALSE /\ file = <<>>
    /\ lines = <<>> /\ idx = 0 /\ videos = <<>>
    /\ current_video = EmptyDict /\ current_transcript = <<>>
    /\ reading_transcript = FALSE /\ error = NoError
    /\ WriterIdle /\ IdIdle /\ TimeIdle /\ MdIdle
    /\ SysIdle
    /\ pc = "read"

SpecParse == InitParse /\ [][ReaderNext]_vars

InitRoundTrip ==
    /\ in_videos \in UNION { [1..n -> InVideoSet] : n \in 0..MaxVideos }
    /\ fetched = <<>> /\ api_log = <<>>
    /\ ReaderIdle /\ IdIdle /\ TimeIdle /\ MdIdle
    /\ SysIdle
    /\ pc = "save"

\* os.path.exists(filename) holds after the save: the raise is not taken
RoundTripNext ==
    \/ WriteHeader
    \/ WriteVideo
    \/ SaveDone
    \/ OpenAndReadLines
    \/ OnVideoLine
    \/ OnTitleLine
    \/ OnUrlLine
    \/ OnTranscriptMark
    \/ OnTextLine
    \/ OnOtherLine
    \/ FinishScan

SpecRoundTrip == InitRoundTrip /\ [][RoundTripNext]_vars

InitTime ==
    /\ ms \in MsSet /\ time_str = <<>>
    /\ ReaderIdle /\ WriterIdle /\ IdIdle /\ MdIdle
    /\ SysIdle
    /\ pc = "time_call"

SpecTime == InitTime /\ [][ConvertMs]_vars

InitMarkdown ==
    /\ results \in ResultLists /\ markdown = <<>>
    /\ ReaderIdle /\ WriterIdle /\ IdIdle /\ TimeIdle
    /\ SysIdle
    /\ pc = "md_call"

SpecMarkdown == InitMarkdown /\ [][FormatMarkdown]_vars

InitVideoId ==
    /\ url \in UrlSet /\ video_id = None
    /\ ReaderIdle /\ WriterIdle /\ TimeIdle /\ MdIdle
    /\ SysIdle
    /\ pc = "id_call"

SpecVideoId == InitVideoId /\ [][GetVideoId]_vars

-----------------------------------------------------------------------------
(* specific_yt_transcripts.py: main (189-230), with upload_audio (36-52),  *)
(* request_transcription (56-64), poll_transcription (68-81),              *)
(* generate_markdown (96-136) and analyze_transcript_with_gemini (140-186).*)

AssemblyKey == "ASSEMBLYAI_API_KEY"
GeminiKey   == "GEMINI_API_KEY"

SleepSeconds == 10   \* time.sleep(10)

\* the "status" of a transcript at the remote service; NoStatus is an answer
\* without a "status" key (result.get("status") is None)
NoStatus      == "<None>"
FinalStatuses == {"completed", "error"}
OpenStatuses  == {"queued", "processing", "throttled", NoStatus}
JobStatuses   == FinalStatuses \cup OpenStatuses

\* print(...), sys.exit(1), an exception nobody catches, return from main
Say(msg)  == printed' = printed \cup {msg}
Did(what) == effects' = effects \cup {what}
Exit1     == outcome' = "exit1" /\ pc' = "halt"
Raise(e)  == outcome' = e /\ pc' = "halt"

\* what a requests call may do: answer 200, answer something else, raise
HttpOutcomes == {"200", "other", "raises"}

\* API_KEY = os.getenv("ASSEMBLYAI_API_KEY"); if not API_KEY: ... sys.exit(1)
TCheckKey ==
    /\ pc = "t_key"
    /\ IF AssemblyKey \in env
       THEN pc' = "t_argv" /\ UNCHANGED <<printed, outcome>>
       ELSE /\ Say("Error: ASSEMBLYAI_API_KEY environment variable not set.")
            /\ Exit1
    /\ UNCHANGED <<restT, script, env, has_arg, term, effects, fs, pollVars>>

\* if len(sys.argv) < 2: ... sys.exit(1)
TCheckArgv ==
    /\ pc = "t_argv"
    /\ IF has_arg
       THEN pc' = "t_download" /\ UNCHANGED <<printed, outcome>>
       ELSE /\ Say("Usage: python script.py <YouTube Video URL>")
            /\ Exit1
    /\ UNCHANGED <<restT, script, env, has_arg, term, effects, fs, pollVars>>

\* audio_file = download_audio_from_youtube(youtube_url)
TDownload ==
    /\ pc = "t_download"
    /\ Did("download")
    /\ \E ok \in BOOLEAN :
          IF ok
          THEN /\ fs' = fs \cup {<<"audio.mp3">>}
               /\ pc' = "t_upload" /\ UNCHANGED outcome
          ELSE Raise("DownloadError") /\ UNCHANGED fs
    /\ UNCHANGED <<restT, script, env, has_arg, term, printed, pollVars>>

\* an upload_audio that goes on after a response other than 200
TUploadIgnoresStatus ==
    /\ pc = "t_upload"
    /\ Did("remote")
    /\ \E http \in HttpOutcomes :
          CASE http = "200" ->
                 pc' = "t_request" /\ UNCHANGED <<printed, outcome>>
            [] http = "other" ->
                 /\ Say("Error uploading file:")
                 /\ pc' = "t_request" /\ UNCHANGED outcome
            [] http = "raises" ->
                 Raise("RequestException") /\ UNCHANGED printed
    /\ UNCHANGED <<restT, script, env, has_arg, term, fs, pollVars>>

\* audio_url = upload_audio(audio_file, headers)
TUpload ==
    /\ pc = "t_upload"
    /\ Did("remote")
    /\ \E http \in HttpOutcomes :
          CASE http = "200" ->
                 pc' = "t_request" /\ UNCHANGED <<printed, outcome>>
            [] http = "other" ->
                 Say("Error uploading file:") /\ Exit1
            [] http = "raises" ->
                 Raise("RequestException") /\ UNCHANGED printed
    /\ UNCHANGED <<restT, script, env, has_arg, term, fs, pollVars>>

\* transcript_id = request_transcription(audio_url, headers)
TRequest ==
    /\ pc = "t_request"
    /\ Did("remote")
    /\ \E http \in HttpOutcomes :
          CASE http = "200" ->
                 /\ \E s \in OpenStatuses : job' = s
                 /\ pc' = "poll_get" /\ UNCHANGED <<printed, outcome>>
            [] http = "other" ->
                 /\ Say("Error requesting transcription:") /\ Exit1
                 /\ UNCHANGED job
            [] http = "raises" ->
                 Raise("RequestException") /\ UNCHANGED <<printed, job>>
    /\ UNCHANGED <<restT, script, env, has_arg, term, fs,
                   response, poll_result, polls, slept, raw_transcript>>

\* The remote service: the job moves on.  A final status is kept.
JobAdvance ==
    /\ job \in OpenStatuses
    /\ \E s \in JobStatuses \ {job} : job' = s
    /\ UNCHANGED <<restT, runVars, response, poll_result, polls, slept,
                   raw_transcript, pc>>
JobFinishes == JobAdvance /\ job' \in FinalStatuses

PollPcs == {"poll_get", "poll_branch"}

\* response = requests.get(endpoint, headers=headers)
\* result = response.json(); status = result.get("status")
PollGet ==
    /\ pc = "poll_get"
    /\ Did("remote")
    /\ polls' = IF polls < MaxPolls THEN polls + 1 ELSE polls
    /\ slept' = 0
    /\ \E answers \in BOOLEAN :
          IF answers
          THEN /\ response' = [status |-> job, serial |-> polls']
               /\ pc' = "poll_branch" /\ UNCHANGED outcome
          ELSE Raise("RequestException") /\ UNCHANGED response
    /\ UNCHANGED <<restT, script, env, has_arg, term, printed, fs,
                   job, poll_result, raw_transcript>>

\* if status == "completed": return result
PollReturn ==
    /\ pc = "poll_branch" /\ response.status = "completed"
    /\ poll_result' = response
    /\ pc' = "t_markdown"
    /\ UNCHANGED <<restT, runVars, job, response, polls, slept, raw_transcript>>

\* elif status == "error": print(...); sys.exit(1)
PollExit ==
    /\ pc = "poll_branch" /\ response.status = "error"
    /\ Say("Error in transcription:") /\ Exit1
    /\ UNCHANGED <<restT, script, env, has_arg, term, effects, fs, pollVars>>

\* a loop that checks again at once
PollSleepNoWait ==
    /\ pc = "poll_branch" /\ response.status \notin FinalStatuses
    /\ Say("Transcription status:")
    /\ pc' = "poll_get"
    /\ UNCHANGED <<restT, script, env, has_arg, term, effects, outcome, fs,
                   pollVars>>

\* a loop that gives up after its second status check
PollSleepTwice ==
    /\ pc = "poll_branch" /\ response.status \notin FinalStatuses
    /\ Say("Transcription status:")
    /\ IF polls < 2
       THEN slept' = slept + SleepSeconds /\ pc' = "poll_get" /\ UNCHANGED outcome
       ELSE Exit1 /\ UNCHANGED slept
    /\ UNCHANGED <<restT, script, env, has_arg, term, effects, fs,
                   job, response, poll_result, polls, raw_transcript>>

\* else: print("Transcription status:", status); time.sleep(10)
PollSleep ==
    /\ pc = "poll_branch" /\ response.status \notin FinalStatuses
    /\ Say("Transcription status:")
    /\ slept' = slept + SleepSeconds
    /\ pc' = "poll_get"
    /\ UNCHANGED <<restT, script, env, has_arg, term, effects, outcome, fs,
                   job, response, poll_result, polls, raw_transcript>>

\* what generate_markdown can return: the text of the utterances or of
\* "text" (some text, or nothing), or the placeholder
NoTranscriptText == "No transcript available."
RawTranscripts   == {"some text", "", NoTranscriptText}

\* raw_transcript = generate_markdown(result)
TGenerateMarkdown ==
    /\ pc = "t_markdown"
    /\ Did("write")
    /\ fs' = fs \cup {<<"transcript.md">>}
    /\ Say("Transcript saved to transcript.md")
    /\ \E t \in RawTranscripts : raw_transcript' = t
    /\ pc' = "t_analyze"
    /\ UNCHANGED <<restT, script, env, has_arg, term, outcome,
                   job, response, poll_result, polls, slept>>

\* if raw_transcript and raw_transcript != "No transcript available.":
\*     quotes = analyze_transcript_with_gemini(raw_transcript) ...
TAnalyze ==
    /\ pc = "t_analyze"
    /\ IF raw_transcript # "" /\ raw_transcript # NoTranscriptText
       THEN IF GeminiKey \in env
            THEN /\ Did("remote")
                 /\ \E ok \in BOOLEAN :
                       IF ok THEN Say("--- Gemini Analysis Results ---")
                       ELSE printed' = printed \cup
                              {"Error calling Gemini API:",
                               "--- Gemini Analysis Results ---"}
            ELSE /\ printed' = printed \cup
                       {"Error: GEMINI_API_KEY environment variable not set.",
                        "--- Gemini Analysis Results ---"}
                 /\ UNCHANGED effects
       ELSE /\ Say("Skipping Gemini analysis as no transcript text was generated.")
            /\ UNCHANGED effects
    /\ outcome' = "returned" /\ pc' = "t_done"
    /\ UNCHANGED <<restT, script, env, has_arg, term, fs, pollVars>>

\* the steps of the script, apart from what the remote service does
TranscribeSteps ==
    \/ TCheckKey
    \/ TCheckArgv
    \/ TDownload
    \/ TUpload
    \/ TRequest
    \/ PollGet
    \/ PollReturn
    \/ PollExit
    \/ PollSleep
    \/ TGenerateMarkdown
    \/ TAnalyze

TranscribeNext == TranscribeSteps \/ JobAdvance

InitTranscribe ==
    /\ script = "specific_yt_transcripts.py"
    /\ env \in SUBSET {AssemblyKey, GeminiKey}
    /\ has_arg \in BOOLEAN
    /\ term = <<>> /\ effects = {} /\ printed = {}
    /\ outcome = "running" /\ fs = {}
    /\ polls = 0 /\ slept = 0 /\ raw_transcript = ""
    /\ job = "none" /\ response = NoResponse /\ poll_result = NoResponse
    /\ ExaIdle /\ LoopIdle /\ TextIdle
    /\ TwinIdle
    /\ pc = "t_key"

SpecTranscribe == InitTranscribe /\ [][TranscribeNext]_vars

\* Every call of the script returns or raises in the end (a sleep ends, a
\* request is answered or fails): the script takes its next step.  The
\* remote service is under no obligation.
SpecTranscribeLive ==
    InitTranscribe /\ [][TranscribeNext]_vars /\ WF_vars(TranscribeSteps)

-----------------------------------------------------------------------------
(* search.py: main (219-268) with get_api_key (24-31), search_exa (78-138) *)
(* and save_results (141-181).  The query is a sequence of characters.     *)

ExaKey    == "EXA_API_KEY"
Wikipedia == "en.wikipedia.org"

QueryLimit == 30   \* safe_query[:30]

\* c.isalnum(): letters and digits, also those outside ASCII
AlnumChars == (IdChars \ {"_", "-"}) \cup {"é"}

\* safe_query = "".join(c if c.isalnum() else "_" for c in query)
\* safe_query = safe_query[:30]
SafeQuery(query) ==
    SubSeq([i \in 1..Len(query) |->
               IF query[i] \in AlnumChars THEN query[i] ELSE "_"],
           1, IF Len(query) < QueryLimit THEN Len(query) ELSE QueryLimit)

\* datetime.now().strftime("%Y-%m-%d_%H-%M-%S"): some time stamp
NowStamp == "2026-01-01_00-00-00"

\* a save_results that names every file .md
SearchResultsPathMd(query, output_format) ==
    <<"results", "/">> \o SafeQuery(query) \o <<"_", NowStamp, ".md">>

\* filepath of save_results, from the directory of the script on
SearchResultsPath(query, output_format) ==
    <<"results", "/">> \o SafeQuery(query) \o <<"_", NowStamp>>
        \o (IF output_format = "json" THEN <<".json">> ELSE <<".md">>)

NoParams == [exclude_domains |-> None, include_domains |-> None]

\* lines 115-121: the list that search_params["exclude_domains"] is
ExcludeOnlyWikipedia(exclude) == <<Wikipedia>>
ExcludeParam(exclude) ==
    IF exclude # None /\ exclude # <<>>
    THEN Append(exclude, Wikipedia)
    ELSE <<Wikipedia>>

\* query = args.query; if not query: query = input(...)
SReadQuery ==
    /\ pc = "s_query"
    /\ IF has_arg THEN UNCHANGED effects ELSE Did("prompt")
    /\ Say("Searching for:")
    /\ pc' = "s_key"
    /\ UNCHANGED <<restS, script, env, has_arg, term, outcome, fs,
                   exclude_domains, search_params, out_format,
                   include_domains, calls, given>>

\* exa = Exa(get_api_key()), inside the try of search_exa
SGetKey ==
    /\ pc = "s_key"
    /\ IF ExaKey \in env
       THEN pc' = "s_params" /\ UNCHANGED printed
       ELSE /\ Say("Error during search:")
            /\ pc' = "s_branch"
    /\ UNCHANGED <<restS, script, env, has_arg, term, effects, outcome, fs,
                   exclude_domains, search_params, out_format,
                   include_domains, calls, given>>

\* search_params = {...}; the exclude_domains branch appends to the list the
\* caller handed in and puts that list into search_params.  (The first
\* definition is a search_exa that extends a copy of the list.)
SBuildParamsOnCopy ==
    /\ pc = "s_params"
    /\ search_params' =
           [exclude_domains |-> ExcludeParam(exclude_domains),
            include_domains |-> IF include_domains # None /\ include_domains # <<>>
                                THEN include_domains ELSE Absent]
    /\ calls' = calls + 1
    /\ pc' = "s_call"
    /\ UNCHANGED <<restS, runVars, exclude_domains, out_format,
                   include_domains, given>>

SBuildParams ==
    /\ pc = "s_params"
    /\ search_params' =
           [exclude_domains |-> ExcludeParam(exclude_domains),
            include_domains |-> IF include_domains # None /\ include_domains # <<>>
                                THEN include_domains ELSE Absent]
    /\ exclude_domains' = IF exclude_domains # None /\ exclude_domains # <<>>
                          THEN ExcludeParam(exclude_domains)
                          ELSE exclude_domains
    /\ calls' = calls + 1
    /\ pc' = "s_call"
    /\ UNCHANGED <<restS, runVars, out_format, include_domains, given>>

\* the results handed back: the __dict__ of each result
ExaResults == { r \in SomeResults : DOMAIN r = FieldKeys }

\* search_response = exa.search_and_contents(**search_params)
\* results = [result.__dict__ for result in search_response.results]
\* except Exception as e: print(...); return []
SCall ==
    /\ pc = "s_call"
    /\ Did("remote")
    /\ \E ok \in BOOLEAN :
          IF ok
          THEN /\ results' \in SeqsUpTo(ExaResults, MaxResults)
               /\ UNCHANGED printed
          ELSE /\ results' = <<>>
               /\ Say("Error during search:")
    /\ pc' = "s_branch"
    /\ UNCHANGED <<readerVars, writerVars, idVars, timeVars, markdown, pollVars, loopVars, twinVars,
                   script, env, has_arg, term, outcome, fs,
                   exclude_domains, search_params, out_format,
                   include_domains, calls, given>>

\* filepath = save_results(results, query, args.format); print(...)
SaveResults ==
    /\ Did("write")
    /\ fs' = fs \cup {SearchResultsPath(term, out_format)}
    /\ markdown' = IF out_format = "json" THEN <<"<json>">>
                   ELSE format_result_as_markdown(results, term)
    /\ Say("Found results. Saved to:")
    /\ outcome' = "returned" /\ pc' = "s_done"

\* a main that saves whatever search_exa returned
SBranchAlwaysSave ==
    /\ pc = "s_branch"
    /\ SaveResults
    /\ UNCHANGED <<readerVars, writerVars, idVars, timeVars, results, pollVars, loopVars, twinVars,
                   script, env, has_arg, term,
                   exclude_domains, search_params, out_format,
                   include_domains, calls, given>>

\* if not results: print(...); return
\* filepath = save_results(results, query, args.format)
SBranch ==
    /\ pc = "s_branch"
    /\ IF results = <<>>
       THEN /\ Say("No results found or an error occurred during search.")
            /\ outcome' = "returned" /\ pc' = "s_done"
            /\ UNCHANGED <<effects, fs, markdown>>
       ELSE SaveResults
    /\ UNCHANGED <<readerVars, writerVars, idVars, timeVars, results, pollVars, loopVars, twinVars,
                   script, env, has_arg, term,
                   exclude_domains, search_params, out_format,
                   include_domains, calls, given>>

SearchNext ==
    \/ SReadQuery
    \/ SGetKey
    \/ SBuildParams
    \/ SCall
    \/ SBranch

\* the queries and the --exclude-domains lists of the runs
Queries == { <<"q">>, <<"a", " ", "/", "b">> }
IncludeArgs == { None, <<"c.com">> }
ExcludeArgs == { None, <<>>, <<"a.com">>, <<"a.com", "b.org">>, <<Wikipedia>> }

InitSearch ==
    /\ script = "search.py"
    /\ env \in SUBSET {ExaKey}
    /\ has_arg \in BOOLEAN
    /\ term \in Queries
    /\ effects = {} /\ printed = {} /\ outcome = "running" /\ fs = {}
    /\ exclude_domains \in ExcludeArgs
    /\ search_params = NoParams
    /\ out_format \in {"markdown", "json"}
    /\ include_domains \in IncludeArgs /\ calls = 0 /\ given = exclude_domains
    /\ PollIdle /\ LoopIdle /\ TextIdle
    /\ TwinIdle
    /\ pc = "s_query"

SpecSearch == InitSearch /\ [][SearchNext]_vars

\* A program that calls search_exa again and again with the same two list
\* objects; the key may be set or unset before each call.
CallAgain ==
    /\ pc = "s_branch" /\ calls < MaxCalls
    /\ env' \in SUBSET {ExaKey}
    /\ pc' = "s_key"
    /\ UNCHANGED <<restS, script, has_arg, term, effects, printed, outcome,
                   fs, exaVars>>

SearchCallsNext ==
    \/ SGetKey
    \/ SBuildParams
    \/ SCall
    \/ CallAgain

InitSearchCalls ==
    /\ script = "caller of search_exa"
    /\ env \in SUBSET {ExaKey}
    /\ has_arg = TRUE
    /\ term \in Queries
    /\ effects = {} /\ printed = {} /\ outcome = "running" /\ fs = {}
    /\ exclude_domains \in ExcludeArgs
    /\ search_params = NoParams
    /\ out_format = "markdown"
    /\ include_domains \in IncludeArgs /\ calls = 0 /\ given = exclude_domains
    /\ PollIdle /\ LoopIdle /\ TextIdle
    /\ TwinIdle
    /\ pc = "s_key"

SpecSearchCalls == InitSearchCalls /\ [][SearchCallsNext]_vars

-----------------------------------------------------------------------------
(* The names of the output files.  A search term is a sequence of          *)
(* characters; the literal parts of a file name are single atoms.          *)

\* yt_scraper.py 76: filename = f"results/{search_term}_videos.txt"
ScraperTimestampedFile(search_term) ==
    <<"results", "/">> \o search_term \o <<"_", NowStamp, "_videos.txt">>
ScraperVideosFile(search_term) ==
    <<"results", "/">> \o search_term \o <<"_videos.txt">>

\* yt_workflow.py 62: filename = f"results/{search_term}_videos.txt"
WorkflowVideosFile(search_term) ==
    <<"results", "/">> \o search_term \o <<"_videos.txt">>

\* yt_transcripts.py 18: filename = f"results/{search_term}_videos.txt"
TranscriptsInputFile(search_term) ==
    <<"results", "/">> \o search_term \o <<"_videos.txt">>

\* yt_transcripts.py 87 (yt_workflow.py 103 holds the same text)
TranscriptsOutputFile(search_term) ==
    <<"results", "/">> \o search_term \o <<"_transcripts.txt">>

\* yt_summaries.py 68 (yt_workflow.py 152 holds the same text)
SummariesInputFile(search_term) ==
    <<"results", "/">> \o search_term \o <<"_transcripts.txt">>

\* yt_summaries.py 189 (yt_workflow.py 251 holds the same text)
SummariesOutputFile(search_term) ==
    <<"results", "/">> \o search_term \o <<"_summaries.md">>

\* One save routine names its file and opens it for writing.
NameFile(path) ==
    /\ pc = "name"
    /\ path \notin fs
    /\ fs' = fs \cup {path}
    /\ Did("write")
    /\ UNCHANGED <<textVars, pollVars, exaVars, loopVars, twinVars, script, env, has_arg, term,
                   printed, outcome, pc>>

NameSearchResults ==
    script = "search.py" /\ NameFile(SearchResultsPath(term, out_format))
NameScraperVideos ==
    script = "yt_scraper.py" /\ NameFile(ScraperVideosFile(term))
NameWorkflowVideos ==
    script = "yt_workflow.py" /\ NameFile(WorkflowVideosFile(term))
NameTranscripts ==
    script \in {"yt_transcripts.py", "yt_workflow.py"}
        /\ NameFile(TranscriptsOutputFile(term))
NameSummaries ==
    script \in {"yt_summaries.py", "yt_workflow.py"}
        /\ NameFile(SummariesOutputFile(term))

FileNameNext ==
    \/ NameSearchResults
    \/ NameScraperVideos
    \/ NameWorkflowVideos
    \/ NameTranscripts
    \/ NameSummaries

\* the terms typed at the shell when the scripts run as a chain
ShellTerms == { <<"p">>, <<"q">> }

\* what the user types: letters, digits, path characters, blanks
TermChars == {"a", "9", "/", ".", "_", " ", "é"}
LongTerms == { Rep("a", QueryLimit + 1),
               Rep("a", QueryLimit - 1) \o <<"/", ".", ".", "/", "b">> }
Terms     == SeqsUpTo(TermChars, MaxTermLen) \cup LongTerms

InitFileName ==
    /\ script \in {"search.py", "yt_scraper.py", "yt_transcripts.py",
                   "yt_summaries.py", "yt_workflow.py"}
    /\ term \in Terms
    /\ env = {} /\ has_arg = FALSE
    /\ effects = {} /\ printed = {} /\ outcome = "running" /\ fs = {}
    /\ exclude_domains = None /\ search_params = NoParams
    /\ include_domains = None /\ calls = 0 /\ given = None
    /\ out_format \in (IF script = "search.py" THEN {"markdown", "json"}
                       ELSE {"markdown"})
    /\ PollIdle /\ LoopIdle /\ TextIdle
    /\ TwinIdle
    /\ pc = "name"

SpecFileName == InitFileName /\ [][FileNameNext]_vars

-----------------------------------------------------------------------------
(* The three workflow scripts run one after another from a shell, in any   *)
(* order and for any term.  One action is one run of a script's main();    *)
(* script, term, effects, printed and outcome describe the latest run.     *)

YoutubeKey == "YOUTUBE_API_KEY"
ResultsDir == <<"results", "/">>

NotFoundMsg == "Error: Could not find"
ErrorMsg    == "An error occurred:"

\* the run that starts: search_term = input(...)
StartRun(name, search_term) ==
    /\ pc = "shell"
    /\ script' = name
    /\ term' = search_term
    /\ UNCHANGED <<textVars, pollVars, exaVars, loopVars, twinVars, env, has_arg, pc>>

\* what a run leaves behind
EndRun(did, said, how, written) ==
    /\ effects' = did
    /\ printed' = said
    /\ outcome' = how
    /\ fs' = fs \cup written

\* yt_scraper.py main (93-112): get_youtube_videos raises on a missing key or
\* a failed request; open() raises when there is no results directory
RunScraper ==
    \E search_term \in ShellTerms, api_ok \in BOOLEAN :
        /\ StartRun("yt_scraper.py", search_term)
        /\ IF YoutubeKey \notin env
           THEN EndRun({"prompt"}, {ErrorMsg}, "returned", {})
           ELSE IF ~api_ok
           THEN EndRun({"prompt", "remote"}, {ErrorMsg}, "returned", {})
           ELSE IF ResultsDir \notin fs
           THEN EndRun({"prompt", "remote"}, {ErrorMsg}, "returned", {})
           ELSE EndRun({"prompt", "remote", "write"},
                       {"Results have been saved to:"}, "returned",
                       {ScraperVideosFile(search_term)})

\* yt_transcripts.py main (107-120) with read_videos_from_file (18-23) and
\* save_transcripts_to_file (87-104)
RunTranscripts ==
    \E search_term \in ShellTerms :
        /\ StartRun("yt_transcripts.py", search_term)
        /\ IF TranscriptsInputFile(search_term) \notin fs
           THEN EndRun({"prompt"}, {NotFoundMsg}, "returned", {})
           ELSE EndRun({"prompt", "remote", "write"},
                       {"Transcripts have been saved to:"}, "returned",
                       {TranscriptsOutputFile(search_term)})

\* yt_summaries.py: the key test of the module (12-14), then main (227-254)
\* with read_transcripts_file (68-73); the loop or save_summaries_to_file
\* may raise, which main prints
RunSummaries ==
    \E search_term \in ShellTerms, loop_ok \in BOOLEAN :
        /\ StartRun("yt_summaries.py", search_term)
        /\ IF GeminiKey \notin env
           THEN EndRun({}, {}, "ValueError", {})
           ELSE IF SummariesInputFile(search_term) \notin fs
           THEN EndRun({"prompt"}, {"Reading transcripts...", NotFoundMsg},
                       "returned", {})
           ELSE IF ~loop_ok
           THEN EndRun({"prompt", "remote"},
                       {"Reading transcripts...", ErrorMsg}, "returned", {})
           ELSE EndRun({"prompt", "remote", "write"},
                       {"Reading transcripts...",
                        "Summaries have been saved to:"}, "returned",
                       {SummariesOutputFile(search_term)})

ScriptsNext ==
    \/ RunScraper
    \/ RunTranscripts
    \/ RunSummaries

InitScripts ==
    /\ script = "none" /\ term = <<>>
    /\ env \in SUBSET {YoutubeKey, GeminiKey}
    /\ has_arg = FALSE
    /\ effects = {} /\ printed = {} /\ outcome = "idle"
    /\ fs \in {{}, {ResultsDir}}
    /\ PollIdle /\ ExaIdle /\ LoopIdle /\ TextIdle
    /\ TwinIdle
    /\ pc = "shell"

SpecScripts == InitScripts /\ [][ScriptsNext]_vars

-----------------------------------------------------------------------------
(* yt_summaries.py main (227-254) and yt_workflow.py main (282-315).  Both *)
(* read the transcripts file with read_transcripts_file and run the same   *)
(* analysis loop (yt_summaries.py 236-245, yt_workflow.py 300-309) over    *)
(* the parsed records; yt_workflow.py first writes the videos file and the *)
(* transcripts file itself.                                                *)

LoopScripts == {"yt_summaries.py", "yt_workflow.py"}

\* what no step of the two mains changes
restW == <<idVars, timeVars, mdVars, pollVars, exaVars, twinVars>>

\* except Exception as e: print(f"\nAn error occurred: {str(e)}")
CaughtReraised(step) ==
    /\ printed' = printed
    /\ outcome' = "Exception" /\ pc' = "halt"
    /\ raised_in' = step
Caught(step) ==
    /\ Say(ErrorMsg)
    /\ outcome' = "returned" /\ pc' = "m_done"
    /\ raised_in' = step

\* yt_summaries.py: the key test of the module (10-14), then input(...) and
\* print("\nReading transcripts...")
MSummariesStart ==
    /\ pc = "m_start" /\ script = "yt_summaries.py"
    /\ IF GeminiKey \notin env
       THEN /\ outcome' = "ValueError" /\ pc' = "halt"
            /\ UNCHANGED <<effects, printed>>
       ELSE /\ Did("prompt") /\ Say("Reading transcripts...")
            /\ pc' = "read"
            /\ UNCHANGED outcome
    /\ UNCHANGED <<restW, readerVars, writerVars, script, env, has_arg, term,
                   fs, loopVars>>

\* except FileNotFoundError as e: print(f"\nError: {str(e)}")
MNotFound ==
    /\ pc = "raised" /\ script = "yt_summaries.py"
    /\ Say(NotFoundMsg)
    /\ outcome' = "returned" /\ pc' = "m_done"
    /\ raised_in' = "read"
    /\ UNCHANGED <<restW, readerVars, writerVars, script, env, has_arg, term,
                   effects, fs, analyses, timeline, summaries>>

\* yt_workflow.py: the key tests of the module (17-23), then input(...)
WStart ==
    /\ pc = "m_start" /\ script = "yt_workflow.py"
    /\ IF {YoutubeKey, GeminiKey} \subseteq env
       THEN /\ Did("prompt")
            /\ pc' = "w_step1"
            /\ UNCHANGED outcome
       ELSE /\ outcome' = "ValueError" /\ pc' = "halt"
            /\ UNCHANGED effects
    /\ UNCHANGED <<restW, readerVars, writerVars, script, env, has_arg, term,
                   printed, fs, loopVars>>

\* Step 1: videos = get_youtube_videos(search_term); the request may raise
WFetchVideos ==
    /\ pc = "w_step1"
    /\ Did("remote")
    /\ \E api_ok \in BOOLEAN :
          IF api_ok
          THEN /\ in_videos' \in SeqsUpTo(InVideoSet, MaxVideos)
               /\ Say("Step 1: Fetching YouTube videos...")
               /\ pc' = "w_save_videos"
               /\ UNCHANGED <<outcome, raised_in>>
          ELSE /\ in_videos' = in_videos
               /\ printed' = printed \cup
                      {"Step 1: Fetching YouTube videos...", ErrorMsg}
               /\ outcome' = "returned" /\ pc' = "m_done"
               /\ raised_in' = "step1"
    /\ UNCHANGED <<restW, readerVars, fetched, api_log, script, env, has_arg,
                   term, fs, analyses, timeline, summaries>>

\* videos_file = save_videos_to_file(videos, search_term): os.makedirs, then
\* open(filename, "w"), which may raise
WSaveVideos ==
    /\ pc = "w_save_videos"
    /\ \E open_ok \in BOOLEAN :
          IF open_ok
          THEN /\ fs' = fs \cup {ResultsDir, WorkflowVideosFile(term)}
               /\ Did("write")
               /\ Say("Videos saved to:")
               /\ pc' = "w_step2"
               /\ UNCHANGED <<outcome, raised_in>>
          ELSE /\ fs' = fs \cup {ResultsDir}
               /\ Caught("step1")
               /\ UNCHANGED effects
    /\ UNCHANGED <<restW, readerVars, writerVars, script, env, has_arg, term,
                   analyses, timeline, summaries>>

\* Step 2: save_transcripts_to_file(videos, search_term), its open(); the
\* writes are WriteHeader, WriteVideo and SaveDone
WOpenTranscripts ==
    /\ pc = "w_step2"
    /\ \E open_ok \in BOOLEAN :
          IF open_ok
          THEN /\ fs' = fs \cup {TranscriptsOutputFile(term)}
               /\ Did("write")
               /\ Say("Step 2: Fetching video transcripts...")
               /\ pc' = "save"
               /\ UNCHANGED <<outcome, raised_in>>
          ELSE /\ printed' = printed \cup
                      {"Step 2: Fetching video transcripts...", ErrorMsg}
               /\ outcome' = "returned" /\ pc' = "m_done"
               /\ raised_in' = "step2"
               /\ UNCHANGED <<fs, effects>>
    /\ UNCHANGED <<restW, readerVars, writerVars, script, env, has_arg, term,
                   analyses, timeline, summaries>>

\* read_transcripts_file has returned: analyses = [], the loop begins
LoopEnter ==
    /\ pc = "done" /\ script \in LoopScripts
    /\ Say("Analyzing transcripts with Gemini...")
    /\ pc' = "loop_head"
    /\ UNCHANGED <<restW, readerVars, writerVars, script, env, has_arg, term,
                   effects, outcome, fs, loopVars>>

\* the record of the iteration that is running or about to run
LoopVideo == videos[Len(analyses) + 1]

\* for i, video in enumerate(videos, 1):
\*     print(f"Analyzing video {i}/{len(videos)}: {video['title']}")
LoopPrint ==
    /\ pc = "loop_head" /\ Len(analyses) < Len(videos)
    /\ IF "title" \in DOMAIN LoopVideo
       THEN /\ Say("Analyzing video")
            /\ pc' = "loop_call"
            /\ UNCHANGED <<outcome, raised_in>>
       ELSE Caught("step3")
    /\ UNCHANGED <<restW, readerVars, writerVars, script, env, has_arg, term,
                   effects, fs, analyses, timeline, summaries>>

\* "\n\n" inside an analysis text, one atom
PP == "\n\n"

\* a text generate_content returns: the three sections the prompt asks for
GeneratedAnalysis ==
    <<"SUMMARY:", NL, "s", " ", PP,
      "QUOTES:", NL, "1", ".", NL, " ", NL, " ", "2", ".", PP,
      "URL:", NL, "u">>

\* what analyze_transcript returns when generate_content returned or raised
AnalysisOf(video, gemini) ==
    [title |-> video["title"], url |-> video["url"],
     analysis |-> IF gemini = "ok" THEN GeneratedAnalysis
                  ELSE <<"Error analyzing transcript: ", "e">>]

\*     analysis = analyze_transcript(video); analyses.append(analysis)
\* The prompt takes video['title'] and video['transcript'] before the try;
\* both return statements take video["url"], the second in the handler.
LoopAnalyze ==
    /\ pc = "loop_call"
    /\ timeline' = Append(timeline, <<"analyze", Len(analyses) + 1>>)
    /\ IF {"title", "transcript"} \subseteq DOMAIN LoopVideo
       THEN /\ Did("remote")
            /\ \E gemini \in {"ok", "raises"} :
                  IF "url" \in DOMAIN LoopVideo
                  THEN /\ analyses' =
                              Append(analyses, AnalysisOf(LoopVideo, gemini))
                       /\ pc' = "loop_tail"
                       /\ UNCHANGED <<printed, outcome, raised_in>>
                  ELSE /\ Caught("step3")
                       /\ UNCHANGED analyses
       ELSE /\ Caught("step3")
            /\ UNCHANGED <<effects, analyses>>
    /\ UNCHANGED <<restW, readerVars, writerVars, script, env, has_arg, term,
                   fs, summaries>>

\*     if i < len(videos): print("Waiting ..."); time.sleep(10)
LoopSleep ==
    /\ pc = "loop_tail"
    /\ IF Len(analyses) < Len(videos)
       THEN /\ Say("Waiting 10 seconds before next analysis...")
            /\ timeline' = Append(timeline, <<"sleep", SleepSeconds>>)
       ELSE UNCHANGED <<printed, timeline>>
    /\ pc' = "loop_head"
    /\ UNCHANGED <<restW, readerVars, writerVars, script, env, has_arg, term,
                   effects, outcome, fs, analyses, raised_in, summaries>>

\* s.replace(word, ""), word one atom
Without(s, word) == LET Keep(x) == x # word IN SelectSeq(s, Keep)

\* save_summaries_to_file (yt_summaries.py 201-221): what is written for one
\* section of analysis["analysis"].split("\n\n")
WriteSection(section) ==
    IF StartsWith(section, <<"SUMMARY:">>)
    THEN <<"### Summary", NL, NL>>
             \o Strip(Without(section, "SUMMARY:")) \o <<NL, NL>>
    ELSE IF StartsWith(section, <<"QUOTES:">>)
    THEN LET quotes == SplitOn(Strip(Without(section, "QUOTES:")), NL)
         IN  <<"### Key Quotes", NL, NL>>
                 \o Concat([k \in 1..Len(quotes) |->
                        IF Strip(quotes[k]) # <<>>
                        THEN <<"- ">> \o Strip(quotes[k]) \o <<NL>>
                        ELSE <<>>])
                 \o <<NL>>
    ELSE IF StartsWith(section, <<"URL:">>) THEN <<>>
    ELSE section \o <<NL, NL>>

\* the writes of one iteration of the loop over analyses
SummaryBlock(i, analysis) ==
    LET sections == SplitOn(analysis["analysis"], PP)
    IN  <<"## Video #">> \o Str(i) \o <<": [">> \o analysis["title"]
            \o <<"](">> \o analysis["url"] \o <<")", NL, NL>>
            \o Concat([k \in 1..Len(sections) |-> WriteSection(sections[k])])
            \o <<"---", NL, NL>>

\* everything save_summaries_to_file writes
SummariesText(all, search_term) ==
    <<"# YouTube Video Summaries for '">> \o search_term \o <<"'", NL, NL>>
        \o Concat([i \in 1..Len(all) |-> SummaryBlock(i, all[i])])

\* output_file = save_summaries_to_file(analyses, search_term); print(...)
\* open(filename, "w") may raise
LoopSave ==
    /\ pc = "loop_head" /\ Len(analyses) = Len(videos)
    /\ \E open_ok \in BOOLEAN :
          IF open_ok
          THEN /\ fs' = fs \cup {SummariesOutputFile(term)}
               /\ Did("write")
               /\ summaries' = SummariesText(analyses, term)
               /\ Say("Summaries have been saved to:")
               /\ outcome' = "returned" /\ pc' = "m_done"
               /\ UNCHANGED raised_in
          ELSE /\ Caught("step3")
               /\ UNCHANGED <<fs, effects, summaries>>
    /\ UNCHANGED <<restW, readerVars, writerVars, script, env, has_arg, term,
                   analyses, timeline>>

LoopNext ==
    \/ LoopEnter
    \/ LoopPrint
    \/ LoopAnalyze
    \/ LoopSleep
    \/ LoopSave

SummariesNext ==
    \/ MSummariesStart
    \/ ReaderNext
    \/ MNotFound
    \/ LoopNext

WorkflowNext ==
    \/ WStart
    \/ WFetchVideos
    \/ WSaveVideos
    \/ WOpenTranscripts
    \/ WriteHeader
    \/ WriteVideo
    \/ SaveDone
    \/ OpenAndReadLines
    \/ OnVideoLine
    \/ OnTitleLine
    \/ OnUrlLine
    \/ OnTranscriptMark
    \/ OnTextLine
    \/ OnOtherLine
    \/ FinishScan
    \/ LoopNext

\* yt_summaries.py is started on whatever transcripts file there is
InitSummaries ==
    /\ script = "yt_summaries.py"
    /\ env \in SUBSET {GeminiKey}
    /\ has_arg = FALSE /\ term = SearchTerm
    /\ effects = {} /\ printed = {} /\ outcome = "running"
    /\ \/ /\ file_exists = TRUE /\ file \in FilesOfBlocks
          /\ fs = {ResultsDir, SummariesInputFile(term)}
       \/ /\ file_exists = FALSE /\ file = <<>>
          /\ fs \in {{}, {ResultsDir}}
    /\ lines = <<>> /\ idx = 0 /\ videos = <<>>
    /\ current_video = EmptyDict /\ current_transcript = <<>>
    /\ reading_transcript = FALSE /\ error = NoError
    /\ WriterIdle /\ IdIdle /\ TimeIdle /\ MdIdle
    /\ PollIdle /\ ExaIdle /\ LoopIdle
    /\ TwinIdle
    /\ pc = "m_start"

SpecSummaries == InitSummaries /\ [][SummariesNext]_vars

\* yt_workflow.py is started in a directory with no files of the term
InitWorkflow ==
    /\ script = "yt_workflow.py"
    /\ env \in SUBSET {YoutubeKey, GeminiKey}
    /\ has_arg = FALSE /\ term = SearchTerm
    /\ effects = {} /\ printed = {} /\ outcome = "running"
    /\ fs = {}
    /\ TextIdle
    /\ PollIdle /\ ExaIdle /\ LoopIdle
    /\ TwinIdle
    /\ pc = "m_start"

SpecWorkflow == InitWorkflow /\ [][WorkflowNext]_vars

-----------------------------------------------------------------------------
(* The second copies: read_transcripts_file of yt_summaries.py (58-106)    *)
(* and get_video_id_from_url of yt_transcripts.py (42-51), run on the      *)
(* input of the first copies (yt_workflow.py 150-186 and 79-86), one step  *)
(* behind them.  The string literals of the two copies are the same        *)
(* characters, so the second copy uses the definitions of the literals.    *)

\* the locals of the second copy before its first statement
TwinStart(p) ==
    [pc |-> p, lines |-> <<>>, idx |-> 0, videos |-> <<>>,
     current_video |-> EmptyDict, current_transcript |-> <<>>,
     reading_transcript |-> FALSE, error |-> NoError, video_id |-> None]

\* both copies are at the same statement
InStep == twin.pc = pc /\ (pc = "scan" => twin.idx = idx)

\* yt_summaries.py 70-73: raise FileNotFoundError(...)
TwinRaiseIfMissing ==
    /\ ~InStep /\ twin.pc = "read" /\ ~file_exists
    /\ twin' = [twin EXCEPT !.pc = "raised", !.error = "FileNotFoundError"]
    /\ UNCHANGED <<textVars, runVars, pollVars, exaVars, loopVars, pc>>

\* yt_summaries.py 75-81: the four locals, then lines = f.readlines()
TwinOpenAndReadLines ==
    /\ ~InStep /\ twin.pc = "read" /\ file_exists
    /\ twin' = [twin EXCEPT !.videos = <<>>, !.current_video = EmptyDict,
                            !.current_transcript = <<>>,
                            !.reading_transcript = FALSE,
                            !.lines = ReadLines(file), !.idx = 1,
                            !.pc = "scan"]
    /\ UNCHANGED <<textVars, runVars, pollVars, exaVars, loopVars, pc>>

\* yt_summaries.py 83-99: one turn of `for line in lines:`
TwinOnLine ==
    /\ ~InStep /\ twin.pc = "scan" /\ twin.idx <= Len(twin.lines)
    /\ LET line == Strip(twin.lines[twin.idx])
           next == [twin EXCEPT !.idx = twin.idx + 1]
       IN  twin' =
             IF StartsWith(line, VideoMark)
             THEN [next EXCEPT
                     !.videos =
                         IF Truthy(twin.current_video)
                              /\ Truthy(twin.current_transcript)
                         THEN Append(twin.videos,
                                  DictSet(twin.current_video, "transcript",
                                          Join(NL, twin.current_transcript)))
                         ELSE twin.videos,
                     !.current_video = EmptyDict,
                     !.current_transcript = <<>>,
                     !.reading_transcript = FALSE]
             ELSE IF StartsWith(line, TitlePrefix)
             THEN [next EXCEPT !.current_video =
                      DictSet(twin.current_video, "title",
                              DropFirst(line, Len(TitlePrefix)))]
             ELSE IF StartsWith(line, UrlPrefix)
             THEN [next EXCEPT !.current_video =
                      DictSet(twin.current_video, "url",
                              DropFirst(line, Len(UrlPrefix)))]
             ELSE IF line = TranscriptMark
             THEN [next EXCEPT !.reading_transcript = TRUE]
             ELSE IF /\ twin.reading_transcript /\ line # <<>>
                     /\ ~StartsWith(line, SeparatorChar)
             THEN [next EXCEPT !.current_transcript =
                      Append(twin.current_transcript, line)]
             ELSE next
    /\ UNCHANGED <<textVars, runVars, pollVars, exaVars, loopVars, pc>>

\* yt_summaries.py 101-106: the last accumulator, then return videos
TwinFinishScan ==
    /\ ~InStep /\ twin.pc = "scan" /\ twin.idx > Len(twin.lines)
    /\ twin' = [twin EXCEPT
                  !.videos =
                      IF Truthy(twin.current_video)
                           /\ Truthy(twin.current_transcript)
                      THEN Append(twin.videos,
                               DictSet(twin.current_video, "transcript",
                                       Join(NL, twin.current_transcript)))
                      ELSE twin.videos,
                  !.pc = "done"]
    /\ UNCHANGED <<textVars, runVars, pollVars, exaVars, loopVars, pc>>

\* a patterns list that holds the youtu.be pattern alone
PatternsShortOnly(u) == << [i \in 1..Len(u) |-> Pattern2GroupAt(u, i)] >>

\* yt_transcripts.py 45: patterns, each by where its group 1 starts in u
Patterns(u) ==
    << [i \in 1..Len(u) |-> Pattern1GroupAt(u, i)],
       [i \in 1..Len(u) |-> Pattern2GroupAt(u, i)] >>

\* yt_transcripts.py 47-51: the group of the first pattern that matches
TwinVideoIdOf(u) ==
    LET hits == { k \in 1..Len(Patterns(u)) :
                    SearchGroup1(u, Patterns(u)[k]) # None }
    IN  IF hits = {} THEN None
        ELSE SearchGroup1(u, Patterns(u)[CHOOSE k \in hits :
                                            \A h \in hits : k <= h])

TwinGetVideoId ==
    /\ ~InStep /\ twin.pc = "id_call"
    /\ twin' = [twin EXCEPT !.video_id = TwinVideoIdOf(url), !.pc = "id_done"]
    /\ UNCHANGED <<textVars, runVars, pollVars, exaVars, loopVars, pc>>

\* the first copy takes a step when the second has caught up
TwinsNext ==
    \/ InStep /\ ReaderNext
    \/ InStep /\ GetVideoId
    \/ TwinRaiseIfMissing
    \/ TwinOpenAndReadLines
    \/ TwinOnLine
    \/ TwinFinishScan
    \/ TwinGetVideoId

\* both copies of one routine are called with the same argument
InitTwins ==
    /\ \/ /\ file_exists = TRUE /\ file \in FilesOfLines \cup FilesOfBlocks
          /\ url = <<>> /\ pc = "read"
       \/ /\ file_exists = FALSE /\ file = <<>>
          /\ url = <<>> /\ pc = "read"
       \/ /\ file_exists = FALSE /\ file = <<>>
          /\ url \in UrlSet /\ pc = "id_call"
    /\ lines = <<>> /\ idx = 0 /\ videos = <<>>
    /\ current_video = EmptyDict /\ current_transcript = <<>>
    /\ reading_transcript = FALSE /\ error = NoError
    /\ video_id = None
    /\ WriterIdle /\ TimeIdle /\ MdIdle
    /\ RunIdle /\ PollIdle /\ ExaIdle /\ LoopIdle
    /\ twin = TwinStart(pc)

SpecTwins == InitTwins /\ [][TwinsNext]_vars

-----------------------------------------------------------------------------
(* save_results_to_file (yt_scraper.py 63-90; save_videos_to_file of       *)
(* yt_workflow.py 60-77 writes the same text after os.makedirs) and        *)
(* read_videos_from_file (yt_transcripts.py 8-39).  Here "Title: " and     *)
(* "URL: " are two atoms each, the word and the space, so that strip()     *)
(* can take the space off a line that ends with it.                        *)

TitleTag == <<"Title:", " ">>
UrlTag   == <<"URL:", " ">>

\* f"{n:03d}"
Pad3(n) ==
    IF n < 10 THEN <<"0", "0">> \o Str(n)
    ELSE IF n < 100 THEN <<"0">> \o Str(n)
    ELSE Str(n)

\* f"{n:,}"
RECURSIVE Grouped(_)
Grouped(n) ==
    IF n < 1000 THEN Str(n)
    ELSE Grouped(n \div 1000) \o <<",">> \o Pad3(n % 1000)

\* datetime.now().strftime('%Y-%m-%d %H:%M:%S')
GeneratedOn == <<"2025-01-31 12:00:00">>

\* an entry that puts the URL line first
VideoEntryUrlFirst(i, video) ==
    <<"Video #">> \o Str(i) \o <<NL>>
        \o UrlTag \o video["url"] \o <<NL>>
        \o TitleTag \o video["title"] \o <<NL>>
        \o <<"View Count: ">> \o Grouped(video["view_count"]) \o <<NL>>
        \o Rep("-", RuleWidth) \o <<NL, NL>>

\* the five writes of one turn of the loop
VideoEntry(i, video) ==
    <<"Video #">> \o Str(i) \o <<NL>>
        \o TitleTag \o video["title"] \o <<NL>>
        \o UrlTag \o video["url"] \o <<NL>>
        \o <<"View Count: ">> \o Grouped(video["view_count"]) \o <<NL>>
        \o Rep("-", RuleWidth) \o <<NL, NL>>

\* everything save_results_to_file writes
VideosFileText(vs, search_term) ==
    <<"YouTube Search Results for: '">> \o search_term \o <<"'", NL>>
        \o <<"Generated on: ">> \o GeneratedOn \o <<NL>>
        \o Rep("=", RuleWidth) \o <<NL, NL>>
        \o Concat([i \in 1..Len(vs) |-> VideoEntry(i, vs[i])])

\* save_results_to_file(videos, search_term)
SaveResultsToFile ==
    /\ pc = "v_save"
    /\ file' = VideosFileText(in_videos, SearchTerm)
    /\ file_exists' = TRUE
    /\ pc' = "v_read"
    /\ UNCHANGED <<sysVars, lines, idx, videos, current_video,
                   current_transcript, reading_transcript, error, writerVars,
                   idVars, timeVars, mdVars>>

\* if not os.path.exists(filename): raise FileNotFoundError(...)
VRaiseIfMissing ==
    /\ pc = "v_read" /\ ~file_exists
    /\ pc' = "v_raised" /\ error' = "FileNotFoundError"
    /\ UNCHANGED <<sysVars, file_exists, file, lines, idx, videos,
                   current_video, current_transcript, reading_transcript,
                   writerVars, idVars, timeVars, mdVars>>

\* videos = []; current_video = {}; lines = f.readlines()
VReadLines ==
    /\ pc = "v_read" /\ file_exists
    /\ videos' = <<>> /\ current_video' = EmptyDict
    /\ lines' = ReadLines(file) /\ idx' = 1
    /\ pc' = "v_scan"
    /\ UNCHANGED <<sysVars, file_exists, file, current_transcript,
                   reading_transcript, error, writerVars, idVars, timeVars,
                   mdVars>>

VAtLine == pc = "v_scan" /\ idx <= Len(lines)

\* if line.startswith("Title: "): current_video = {"title": line[7:]}
VOnTitleLine ==
    /\ VAtLine /\ StartsWith(CurLine, TitleTag)
    /\ current_video' = DictSet(EmptyDict, "title",
                                DropFirst(CurLine, Len(TitleTag)))
    /\ idx' = idx + 1
    /\ UNCHANGED <<sysVars, file_exists, file, lines, videos,
                   current_transcript, reading_transcript, error, writerVars,
                   idVars, timeVars, mdVars, pc>>

\* elif line.startswith("URL: "):
\*     current_video["url"] = line[5:]; videos.append(current_video.copy())
VOnUrlLine ==
    /\ VAtLine /\ ~StartsWith(CurLine, TitleTag)
    /\ StartsWith(CurLine, UrlTag)
    /\ LET with_url == DictSet(current_video, "url",
                               DropFirst(CurLine, Len(UrlTag)))
       IN  /\ current_video' = with_url
           /\ videos' = Append(videos, with_url)
    /\ idx' = idx + 1
    /\ UNCHANGED <<sysVars, file_exists, file, lines, current_transcript,
                   reading_transcript, error, writerVars, idVars, timeVars,
                   mdVars, pc>>

\* neither branch taken
VOnOtherLine ==
    /\ VAtLine /\ ~StartsWith(CurLine, TitleTag)
    /\ ~StartsWith(CurLine, UrlTag)
    /\ idx' = idx + 1
    /\ UNCHANGED <<sysVars, file_exists, file, lines, videos, current_video,
                   current_transcript, reading_transcript, error, writerVars,
                   idVars, timeVars, mdVars, pc>>

\* return videos
VReturn ==
    /\ pc = "v_scan" /\ idx > Len(lines)
    /\ pc' = "v_done"
    /\ UNCHANGED <<sysVars, readerVars, writerVars, idVars, timeVars, mdVars>>

VideosFileNext ==
    \/ SaveResultsToFile
    \/ VRaiseIfMissing
    \/ VReadLines
    \/ VOnTitleLine
    \/ VOnUrlLine
    \/ VOnOtherLine
    \/ VReturn

\* the videos handed to save_results_to_file: titles as the API may give
\* them (also empty, padded or of two lines), the URL get_youtube_videos
\* builds, and a view count
ScrapedTitles ==
    { <<"a">>, <<"b">>, <<>>, <<" ", "a">>, <<"a", NL, "URL:", " ", "z">> }
ScrapedUrls ==
    { <<"https://www.youtube.com/watch?v=", "x">>,
      <<"https://www.youtube.com/watch?v=", "y">> }
ViewCounts == { 0, 1234567 }
ScrapedVideos ==
    { [title |-> t, url |-> u, view_count |-> n] :
        t \in ScrapedTitles, u \in ScrapedUrls, n \in ViewCounts }

\* the lines of a videos file written by hand
VideoLineKinds == {
    <<"Title:", " ", "a", NL>>,
    <<"Title:", " ", "b", " ", NL>>,
    <<"Title:", " ", NL>>,
    <<"URL:", " ", "u", NL>>,
    <<" ", "URL:", " ", "v", " ", NL>>,
    <<"View Count: ", "1", NL>> }
FilesOfVideoLines == { Concat(ls) : ls \in SeqsUpTo(VideoLineKinds, MaxLines) }

\* read_videos_from_file is called on a file written by hand, on no file,
\* or after save_results_to_file
InitVideosFile ==
    /\ \/ /\ file_exists = TRUE /\ file \in FilesOfVideoLines
          /\ in_videos = <<>> /\ pc = "v_read"
       \/ /\ file_exists = FALSE /\ file = <<>>
          /\ in_videos = <<>> /\ pc = "v_read"
       \/ /\ file_exists = FALSE /\ file = <<>>
          /\ in_videos \in SeqsUpTo(ScrapedVideos, MaxVideos)
          /\ pc = "v_save"
    /\ lines = <<>> /\ idx = 0 /\ videos = <<>>
    /\ current_video = EmptyDict /\ current_transcript = <<>>
    /\ reading_transcript = FALSE /\ error = NoError
    /\ fetched = <<>> /\ api_log = <<>>
    /\ IdIdle /\ TimeIdle /\ MdIdle
    /\ SysIdle

SpecVideosFile == InitVideosFile /\ [][VideosFileNext]_vars

-----------------------------------------------------------------------------
(*                             PROPERTIES                                  *)
(* From here on: the vocabulary of the properties, and the properties.     *)
-----------------------------------------------------------------------------
(* Blocks of the input, read off the lines alone.  A block starts after a  *)
(* "Video #" line (or at the top of the file, start 0) and ends before the *)
(* next one (or at the end of the file, end Len(lines) + 1).               *)

StrippedLine(i) == Strip(lines[i])
VideoLineIdx == { i \in 1..Len(lines) : StartsWith(StrippedLine(i), VideoMark) }
\* the start of the block that ends before position e
BlockStartBefore(e) ==
    LET before == { i \in VideoLineIdx : i < e }
    IN  IF before = {} THEN 0 ELSE CHOOSE i \in before : \A k \in before : k <= i
\* the end of the block that starts at j
BlockEndAfter(j) ==
    LET after == { i \in VideoLineIdx : i > j }
    IN  IF after = {} THEN Len(lines) + 1
        ELSE CHOOSE i \in after : \A k \in after : i <= k
\* a Title or URL line strictly between j and e
BlockHasIdent(j, e) ==
    \E k \in (j + 1)..(e - 1) :
        \/ StartsWith(StrippedLine(k), TitlePrefix)
        \/ StartsWith(StrippedLine(k), UrlPrefix)
\* free text: not empty, not a separator, none of the marked lines
IsFreeText(line) ==
    /\ line # <<>> /\ line[1] # "="
    /\ line[1] \notin {"Video #", "Title: ", "URL: "}
    /\ line # <<"TRANSCRIPT:">>
\* a TRANSCRIPT: line and, after it, a line of free text, between j and e
BlockHasText(j, e) ==
    \E k \in (j + 1)..(e - 1) : \E m \in (k + 1)..(e - 1) :
        /\ StrippedLine(k) = <<"TRANSCRIPT:">>
        /\ IsFreeText(StrippedLine(m))

\* C2: a record is appended to videos only for a block that has a
\* TRANSCRIPT: line followed by at least one line of text; a block without
\* one never appears in the output, whether it ends at a "Video #" line or
\* at the end of the input.
C2_NoTranscriptDropped ==
    [][ Len(videos') > Len(videos)
          => /\ pc = "scan"
             /\ BlockHasText(BlockStartBefore(idx), idx)
             /\ Len(videos') = Len(videos) + 1 ]_vars

\* C2 witness: the scan is over, it returned a record, and a "Video #"
\* block with a Title and a URL but no transcript text is in the input,
\* followed by another "Video #" line.
C2_Witness ==
    /\ pc = "done" /\ Len(videos) = 1
    /\ \E j \in VideoLineIdx :
          /\ BlockEndAfter(j) <= Len(lines)
          /\ BlockHasIdent(j, BlockEndAfter(j))
          /\ ~BlockHasText(j, BlockEndAfter(j))

\* C3 (as claimed): every returned record has the keys title, url and
\* transcript.
C3_AllKeys ==
    pc = "done" =>
        \A i \in 1..Len(videos) : DOMAIN videos[i] = {"title", "url", "transcript"}

\* C4 (as claimed): a "Video #" line flushes the accumulator whenever it
\* holds a title or a url.
C4_FlushWheneverNonEmpty ==
    [][ ( /\ pc = "scan" /\ idx <= Len(lines)
          /\ StartsWith(StrippedLine(idx), VideoMark)
          /\ DOMAIN current_video # {} )
          => Len(videos') = Len(videos) + 1 ]_vars

\* C4 (amended): a "Video #" line appends the accumulator, with its
\* transcript lines joined by newlines, exactly when the accumulator holds a
\* title or a url AND at least one transcript line; otherwise videos is
\* unchanged.  Either way the next accumulator is empty, with an empty
\* transcript buffer and the flag cleared.
C4_FlushOnVideoLine ==
    [][ ( /\ pc = "scan" /\ idx <= Len(lines)
          /\ StartsWith(StrippedLine(idx), VideoMark) )
          => /\ IF DOMAIN current_video # {} /\ Len(current_transcript) > 0
                THEN /\ Len(videos') = Len(videos) + 1
                     /\ SubSeq(videos', 1, Len(videos)) = videos
                     /\ LET r == videos'[Len(videos')]
                        IN  /\ DOMAIN r = DOMAIN current_video \cup {"transcript"}
                            /\ \A k \in DOMAIN current_video \ {"transcript"} :
                                  r[k] = current_video[k]
                            /\ r["transcript"] = Join(NL, current_transcript)
                ELSE videos' = videos
             /\ current_video' = EmptyDict
             /\ current_transcript' = <<>>
             /\ reading_transcript' = FALSE ]_vars

\* C4 witness: the line just visited was a "Video #" line and the record
\* before it has been flushed.
C4_Witness ==
    /\ pc = "scan" /\ idx > 1
    /\ StartsWith(StrippedLine(idx - 1), VideoMark)
    /\ Len(videos) = 1
    /\ current_video = EmptyDict /\ current_transcript = <<>>
    /\ ~reading_transcript

\* C5 (as claimed): with the flag set, every non-empty line that is neither
\* a "Video #" line nor a separator is appended to the transcript buffer and
\* leaves title and url alone.  (A repeated TRANSCRIPT: line is left out of
\* the statement: it is read as a marker, not as a line of the transcript.)
C5_EveryLineAppended ==
    [][ ( /\ pc = "scan" /\ idx <= Len(lines)
          /\ reading_transcript
          /\ StrippedLine(idx) # <<>>
          /\ StrippedLine(idx) # TranscriptMark
          /\ ~StartsWith(StrippedLine(idx), VideoMark)
          /\ ~StartsWith(StrippedLine(idx), SeparatorChar) )
          => /\ current_transcript' = Append(current_transcript, StrippedLine(idx))
             /\ current_video' = current_video ]_vars

\* C6: with the file present the scan never raises, visits the lines one by
\* one in order, can always take its next step, and ends having visited
\* them all; the only exception is FileNotFoundError, for a missing file,
\* before anything is read.
C6_NoErrorOnContent ==
    /\ [](file_exists => pc # "raised" /\ error = NoError)
    /\ [](pc = "raised" =>
            /\ ~file_exists /\ error = "FileNotFoundError"
            /\ lines = <<>> /\ idx = 0 /\ videos = <<>>)
    /\ [](pc = "done" => idx = Len(lines) + 1 /\ lines = ReadLines(file))
    /\ [][pc = "scan" /\ pc' = "scan" => idx' = idx + 1]_vars
    /\ [][pc' = "done" => pc = "scan" /\ idx = Len(lines) + 1]_vars
    /\ [](file_exists /\ pc # "done" => ENABLED ReaderNext)

\* C6 witness: a file with text before the first "Video #" line, a Title
\* line after TRANSCRIPT: and no URL has been scanned to the end.
C6_Witness ==
    /\ pc = "done" /\ file_exists /\ error = NoError
    /\ Len(lines) >= 3
    /\ ~StartsWith(StrippedLine(1), VideoMark)
    /\ \E k \in 1..Len(lines) : \E m \in (k + 1)..Len(lines) :
          /\ StrippedLine(k) = TranscriptMark
          /\ StartsWith(StrippedLine(m), TitlePrefix)
    /\ \A k \in 1..Len(lines) : ~StartsWith(StrippedLine(k), UrlPrefix)

-----------------------------------------------------------------------------
\* "watch?v=" (long form) and "youtu.be/" (short form) followed by an id
WatchV  == <<"w", "a", "t", "c", "h", "?", "v", "=">>
YoutuBe == <<"y", "o", "u", "t", "u", ".", "b", "e", "/">>
YouTube == <<"y", "o", "u", "t", "u", "b", "e">>
Contains(u, p) == \E i \in 1..Len(u) : LiteralAt(u, i, p)
\* the id after the first occurrence of the literal p, when 11 id characters
\* follow it; else None
IdAfter(u, p) ==
    LET at == { i \in 1..Len(u) : LiteralAt(u, i, p) }
    IN  IF at = {} THEN None
        ELSE LET i == CHOOSE h \in at : \A k \in at : h <= k
             IN  IF IdRunAt(u, i + Len(p))
                 THEN SubSeq(u, i + Len(p), i + Len(p) + IdLen - 1) ELSE None
IsYouTubeUrl(u) == Contains(u, YoutuBe) \/ Contains(u, YouTube)

\* C7 (as claimed): the extractor returns the id that follows watch?v= of a
\* long-form URL and youtu.be/ of a short-form URL, and None for every
\* string that is not a YouTube URL.
C7_IdOrNone ==
    pc = "id_done" =>
        /\ IdAfter(url, WatchV) # None => video_id = IdAfter(url, WatchV)
        /\ (IdAfter(url, WatchV) = None /\ IdAfter(url, YoutuBe) # None)
              => video_id = IdAfter(url, YoutuBe)
        /\ ~IsYouTubeUrl(url) => video_id = None

-----------------------------------------------------------------------------
\* The lines of a text: cut at newlines, stripped, the empty ones dropped.
RECURSIVE NonBlank(_)
NonBlank(ls) ==
    IF ls = <<>> THEN <<>>
    ELSE IF Strip(Head(ls)) = <<>> THEN NonBlank(Tail(ls))
    ELSE <<Strip(Head(ls))>> \o NonBlank(Tail(ls))
\* a transcript "up to newline-joining"
NewlineJoined(text) == Join(NL, NonBlank(ReadLines(text)))

\* C1 (as claimed): when every written record has a non-empty title, url
\* and transcript, the reader returns as many records as were written, in
\* order, with the written title and url and the written transcript up to
\* newline-joining.
C1_RoundTrip ==
    ( /\ pc = "done"
      /\ Len(fetched) = Len(in_videos)
      /\ \A i \in 1..Len(in_videos) :
            /\ in_videos[i]["title"] # <<>>
            /\ in_videos[i]["url"] # <<>>
            /\ fetched[i] # <<>> )
    => /\ Len(videos) = Len(in_videos)
       /\ \A i \in 1..Len(videos) :
            /\ DOMAIN videos[i] = {"title", "url", "transcript"}
            /\ videos[i]["title"] = in_videos[i]["title"]
            /\ videos[i]["url"] = in_videos[i]["url"]
            /\ videos[i]["transcript"] = NewlineJoined(fetched[i])

-----------------------------------------------------------------------------
MdLines == ReadLines(markdown)
MdHeaderIdx == { i \in 1..Len(MdLines) : StartsWith(MdLines[i], <<"## ">>) }
\* the line number of the k-th section header
MdHeader(k) ==
    CHOOSE h \in MdHeaderIdx : Cardinality({ x \in MdHeaderIdx : x <= h }) = k

\* C9: the markdown ends with the line "*Total results: N*", N the length
\* of the input list, and has exactly N section headers, the k-th one
\* starting "## k. ".
C9_TotalLine ==
    pc = "md_done" =>
        /\ MdLines[Len(MdLines)] = <<"*Total results: ">> \o Str(Len(results)) \o <<"*">>
        /\ Cardinality(MdHeaderIdx) = Len(results)
        /\ \A k \in 1..Len(results) :
              StartsWith(MdLines[MdHeader(k)], <<"## ">> \o Str(k) \o <<". ">>)

\* C9 witness: a list of two results has been formatted.
C9_Witness ==
    /\ pc = "md_done" /\ Len(results) = 2
    /\ MdLines[Len(MdLines)] = <<"*Total results: ", "2", "*">>

\* a field with no value: the key is missing, or it is there with None
NoValue(r, k) == k \notin DOMAIN r \/ r[k] = None

\* C10 (as claimed): every field with no value is printed as its
\* placeholder, in the header, URL, Date, Source and Preview lines of the
\* result's section.
C10_Placeholders ==
    pc = "md_done" =>
        \A k \in 1..Len(results) :
            LET r == results[k]
                h == MdHeader(k)
            IN  /\ Cardinality(MdHeaderIdx) = Len(results)
                /\ NoValue(r, "title") =>
                      MdLines[h] = <<"## ">> \o Str(k) \o <<". ", "No Title", NL>>
                /\ NoValue(r, "url") =>
                      MdLines[h + 2] = <<"**URL:** [", "No URL", "](", "No URL", ")", NL>>
                /\ NoValue(r, "published_date") =>
                      MdLines[h + 4] = <<"**Date:** ", "Unknown date", NL>>
                /\ NoValue(r, "source") =>
                      MdLines[h + 6] = <<"**Source:** ", "Unknown source", NL>>
                /\ NoValue(r, "text") =>
                      MdLines[h + 10] = <<"No text content available", NL>>

-----------------------------------------------------------------------------
\* the keys the running script needs
RequiredKeys ==
    CASE script = "specific_yt_transcripts.py" -> {AssemblyKey, GeminiKey}
      [] OTHER -> {}
\* the run is over
RunOver == outcome \notin {"idle", "running"}
\* a message that names a key has been printed
KeyNamed ==
    \E k \in RequiredKeys \ env : \E m \in printed :
        m = "Error: " \o k \o " environment variable not set."

\* C11 (as claimed): in a run where a key the script needs is not set,
\* nothing is asked of the user, downloaded, sent to a remote service or
\* written to a file, and the run ends as a failure, with a message that
\* names a missing key unless the command line was wrong as well.
C11_FailFast ==
    RequiredKeys \ env # {} =>
        /\ effects = {}
        /\ fs = {}
        /\ RunOver => outcome # "returned"
        /\ RunOver /\ has_arg => KeyNamed

\* C12: poll_transcription returns only from a status check that answered
\* "completed", and returns that answer; it exits with code 1 only from one
\* that answered "error"; after any other answer, a missing status included,
\* it sleeps 10 seconds once and then checks again; it never sleeps after
\* "completed" or "error".
C12_PollSteps ==
    /\ [][pc = "poll_branch" /\ pc' # pc =>
            CASE response.status = "completed" ->
                   /\ pc' = "t_markdown" /\ poll_result' = response
                   /\ slept' = slept /\ outcome' = "running"
              [] response.status = "error" ->
                   /\ pc' = "halt" /\ outcome' = "exit1" /\ slept' = slept
              [] OTHER ->
                   /\ pc' = "poll_get" /\ outcome' = "running"
                   /\ slept = 0 /\ slept' = SleepSeconds
                   /\ (polls' = polls /\ response' = response) ]_vars
    /\ [][pc = "poll_get" /\ pc' # "poll_get" =>
            /\ slept = (IF polls = 0 THEN 0 ELSE SleepSeconds)
            /\ slept' = 0 /\ "remote" \in effects'
            /\ \/ pc' = "poll_branch" /\ response'.status = job
               \/ (pc' = "halt" /\ outcome' = "RequestException") ]_vars
    /\ [][pc' = "t_markdown" /\ pc # "t_markdown" =>
            (pc = "poll_branch" /\ response.status = "completed") ]_vars
    /\ [](pc \in {"t_markdown", "t_analyze", "t_done"} =>
            poll_result.status = "completed" /\ poll_result = response)

\* C12 witness: poll_transcription has returned the answer of its third
\* status check.
C12_Witness ==
    /\ pc = "t_markdown" /\ poll_result.status = "completed"
    /\ poll_result.serial = 3 /\ slept = 0

\* C13: once the status at the remote service is "completed" or "error" the
\* loop ends; the loop is left only by such a status (or by an exception of
\* the request); and in a behaviour where the status never is one of the
\* two and no request fails, the script stays in the loop for ever, checking
\* the status again and again, and generate_markdown and the Gemini
\* analysis are never reached.
C13_EndsWithTheJob ==
    /\ (pc \in PollPcs /\ job \in FinalStatuses) ~> (pc \notin PollPcs)
    /\ [][ (pc \in PollPcs /\ pc' \notin PollPcs) =>
              ( \/ (pc = "poll_branch" /\ response.status \in FinalStatuses)
                \/ (pc = "poll_get" /\ outcome' = "RequestException") ) ]_vars
    /\ []( (pc \in PollPcs /\ [](job \notin FinalStatuses /\ outcome = "running"))
             => ( /\ [](pc \in PollPcs)
                  /\ []<>(pc = "poll_get")
                  /\ []<>(pc = "poll_branch") ) )

\* C13 witness: the loop has made as many status checks as are counted and
\* is about to sleep again.
C13_Witness ==
    /\ pc = "poll_branch" /\ polls = MaxPolls
    /\ response.status \notin FinalStatuses


-----------------------------------------------------------------------------
(* search.py                                                               *)

\* the Exa request was made and raised
ExaCallRaised == "remote" \in effects /\ "Error during search:" \in printed

\* the texts format_result_as_markdown puts where a result has none
ReportPlaceholders ==
    {"No Title", "No URL", "Unknown source", "No date available",
     "No text content available"}

InSeq(x, s) == \E i \in 1..Len(s) : s[i] = x

\* C16 (as claimed): a run of search.py whose Exa request raised has, at its
\* end, written a report file, and the report holds placeholder text.
C16_ReportWithPlaceholder ==
    (script = "search.py" /\ RunOver /\ ExaCallRaised) =>
        /\ fs # {}
        /\ \E i \in 1..Len(markdown) : markdown[i] \in ReportPlaceholders

\* C16 (amended): once the Exa request of search.py has raised, the search
\* has no results, the run writes no file and no report text, and it ends by
\* returning after the "No results found ..." message.
C16_NoReportOnFailure ==
    (script = "search.py" /\ ExaCallRaised) =>
        /\ results = <<>>
        /\ fs = {} /\ markdown = <<>> /\ "write" \notin effects
        /\ outcome \in {"running", "returned"}
        /\ RunOver =>
              "No results found or an error occurred during search." \in printed

C16_Witness ==
    /\ script = "search.py" /\ RunOver /\ ExaCallRaised
    /\ outcome = "returned" /\ ExaKey \in env

\* C20: the parameters search_exa builds hold every domain of the caller's
\* list and "en.wikipedia.org", whatever the caller gave (nothing, an empty
\* list, a list with or without Wikipedia), and the request is made with
\* exactly those parameters.
C20_WikipediaExcluded ==
    /\ [][ (pc = "s_params" /\ pc' # pc) =>
             (/\ InSeq(Wikipedia, search_params'.exclude_domains)
              /\ (exclude_domains # None =>
                    \A i \in 1..Len(exclude_domains) :
                        InSeq(exclude_domains[i],
                              search_params'.exclude_domains))) ]_vars
    /\ [][ (pc = "s_call" /\ pc' # pc) =>
             (/\ search_params' = search_params
              /\ InSeq(Wikipedia, search_params.exclude_domains)) ]_vars
    /\ [](script = "search.py" /\ "remote" \in effects =>
             InSeq(Wikipedia, search_params.exclude_domains))

C20_Witness ==
    /\ script = "search.py" /\ "remote" \in effects
    /\ search_params.exclude_domains = <<"a.com", "b.org", Wikipedia>>


-----------------------------------------------------------------------------
(* file names                                                              *)

\* os.path.normpath of a relative path: the components between "/", with
\* "" and "." dropped and ".." taking back the component before it
PushComponent(stack, comp) ==
    IF comp = <<>> \/ comp = <<".">> THEN stack
    ELSE IF comp = <<".", ".">> /\ stack # <<>>
               /\ stack[Len(stack)] # <<".", ".">>
         THEN SubSeq(stack, 1, Len(stack) - 1)
         ELSE Append(stack, comp)

RECURSIVE NormFrom(_, _, _, _)
NormFrom(p, i, comp, stack) ==
    IF i > Len(p) THEN PushComponent(stack, comp)
    ELSE IF p[i] = "/" THEN NormFrom(p, i + 1, <<>>, PushComponent(stack, comp))
    ELSE NormFrom(p, i + 1, Append(comp, p[i]), stack)

NormPath(p) == NormFrom(p, 1, <<>>, <<>>)

\* the file is in the results directory or below it
InsideResults(p) == Len(NormPath(p)) >= 2 /\ NormPath(p)[1] = <<"results">>

\* the part of a file name of save_results that comes from the query
QueryPart(p) == SubSeq(p, 3, Len(p) - 3)

\* C18 (as claimed): every file a save routine names is in the results
\* directory; the query part of a file name of search.py is at most 30
\* characters, all alphanumeric or "_"; the search-term part of a file name
\* of the YouTube scripts holds no "/".
C18_SanitizedNames ==
    \A p \in fs :
        /\ InsideResults(p)
        /\ script = "search.py" =>
              /\ Len(QueryPart(p)) <= QueryLimit
              /\ \A i \in 1..Len(QueryPart(p)) :
                     QueryPart(p)[i] \in AlnumChars \cup {"_"}
        /\ script # "search.py" =>
              \A i \in 3..Len(p) : p[i] # "/"

\* what holds of search.py alone
SearchNamesSanitized ==
    script = "search.py" => C18_SanitizedNames


-----------------------------------------------------------------------------
(* the three workflow scripts                                              *)

\* the latest run was of this script, for this term, and got past the
\* tests of its module
RanFor(name, search_term) ==
    script = name /\ term = search_term /\ outcome = "returned"

-----------------------------------------------------------------------------
(* save_transcripts_to_file with failing fetches                           *)

\* the section text the file must hold for video i
SectionText(i) ==
    IF api_log[i] = NotCalled THEN <<"Could not extract video ID from URL">>
    ELSE IF api_log[i][1] = "raises"
         THEN <<"Could not fetch transcript: ">> \o api_log[i][2]
         ELSE api_log[i][2]

\* the block the file must hold for video i
BlockOf(i) ==
    <<"Video #">> \o Str(i) \o <<NL>>
        \o <<"Title: ">> \o in_videos[i]["title"] \o <<NL>>
        \o <<"URL: ">> \o in_videos[i]["url"] \o <<NL>>
        \o Rep("-", 80) \o <<NL, NL>>
        \o <<"TRANSCRIPT:", NL>> \o SectionText(i)
        \o <<NL>> \o Rep("=", 80) \o <<NL, NL>>

\* C15: whatever subset of the fetches fails (no video id in the URL, or the
\* API raises), save_transcripts_to_file goes through every video without an
\* exception: after the header the file holds, in input order, one block
\* "Video #i", Title, URL, TRANSCRIPT: for each video handled so far, the
\* section text of a failed one being the placeholder, and at the end of the
\* save every input video has been handled.
C15_FetchFailureKept ==
    pc # "save" =>
        /\ error = NoError
        /\ Len(fetched) = Len(api_log) /\ Len(fetched) <= Len(in_videos)
        /\ pc # "save_loop" => Len(fetched) = Len(in_videos)
        /\ file = FileHeader(SearchTerm)
                      \o Concat([i \in 1..Len(fetched) |-> BlockOf(i)])
        /\ \A i \in 1..Len(fetched) : fetched[i] = SectionText(i)

\* the save is over; the first fetch raised, the second URL has no video id
C15_Witness ==
    /\ pc = "read"
    /\ Len(in_videos) = 2 /\ Len(fetched) = 2
    /\ api_log[1][1] = "raises" /\ api_log[2] = NotCalled


-----------------------------------------------------------------------------
(* the analysis loop and the failures of yt_workflow.main                  *)

\* n calls in record order with one 10-second sleep between every two
ExpectedTimeline(n) ==
    [k \in 1..(IF n = 0 THEN 0 ELSE 2 * n - 1) |->
        IF k % 2 = 1 THEN <<"analyze", (k + 1) \div 2>> ELSE <<"sleep", 10>>]

IsPrefix(s, t) == Len(s) <= Len(t) /\ s = SubSeq(t, 1, Len(s))

LoopEntered == "Analyzing transcripts with Gemini..." \in printed

\* C14 (as claimed): once read_transcripts_file has handed n records to the
\* loop of main, the calls of analyze_transcript and the sleeps made so far
\* are the first ones of: call 1, sleep 10, call 2, ..., sleep 10, call n;
\* and when main is over they are all of them (n calls, n-1 sleeps, no
\* sleep when n = 0).
C14_DelaysBetweenCalls ==
    (script \in LoopScripts /\ LoopEntered) =>
        /\ IsPrefix(timeline, ExpectedTimeline(Len(videos)))
        /\ RunOver => timeline = ExpectedTimeline(Len(videos))

WorkflowFiles ==
    {WorkflowVideosFile(term), TranscriptsOutputFile(term),
     SummariesOutputFile(term)}

\* C17 (as claimed): in a run of yt_workflow.main in which a step raised,
\* main returned normally and none of the three output files was written.
C17_NoOutputOnFailure ==
    (script = "yt_workflow.py" /\ raised_in # "none") =>
        /\ outcome = "returned"
        /\ fs \cap WorkflowFiles = {}

\* C17 (amended): the only exception of a run of yt_workflow.py is the
\* ValueError of the key tests of the module, before main is called.  In a
\* run of yt_workflow.main in which a step raised, the exception was
\* caught and printed and main returned normally; the
\* summaries file was not written, and of the other two files exactly those
\* of the steps before the failing one exist: none after a failure of step
\* 1, the videos file after a failure of step 2, the videos file and the
\* transcripts file after a failure of step 3.
C17_FailureKeepsEarlierFiles ==
    script = "yt_workflow.py" =>
        /\ outcome \in {"running", "returned", "ValueError"}
        /\ outcome = "ValueError" => effects = {} /\ raised_in = "none"
        /\ raised_in # "none" =>
              /\ outcome = "returned" /\ pc = "m_done"
              /\ ErrorMsg \in printed
              /\ SummariesOutputFile(term) \notin fs
              /\ WorkflowVideosFile(term) \in fs <=>
                     raised_in \in {"step2", "step3"}
              /\ TranscriptsOutputFile(term) \in fs <=> raised_in = "step3"

\* step 3 raised after both earlier files were written and one analysis made
C17_Witness ==
    /\ script = "yt_workflow.py" /\ raised_in = "step3"
    /\ outcome = "returned"
    /\ WorkflowVideosFile(term) \in fs /\ TranscriptsOutputFile(term) \in fs
    /\ Len(analyses) = 1


-----------------------------------------------------------------------------
(* search.py: when a file is written                                       *)

NoResultsMsg == "No results found or an error occurred during search."

\* the extension of a file name: its last atom
Extension(p) == p[Len(p)]

\* C22: at the end of a run of search.py main, if search_exa returned an
\* empty list (which it does when the key is missing and when the request
\* raised) the "No results found ..." message was printed and no file was
\* written; otherwise exactly one file was written, the message was not
\* printed, and the file's extension is .json for format json and .md
\* otherwise.  Before the end of main no file is written.
C22_FileOnlyWithResults ==
    script = "search.py" =>
        /\ ~RunOver => fs = {} /\ "write" \notin effects
        /\ RunOver =>
              /\ (ExaKey \notin env \/ ExaCallRaised) => results = <<>>
              /\ results = <<>> =>
                    /\ NoResultsMsg \in printed
                    /\ fs = {} /\ "write" \notin effects
              /\ results # <<>> =>
                    /\ NoResultsMsg \notin printed
                    /\ Cardinality(fs) = 1 /\ "write" \in effects
                    /\ \A p \in fs :
                          Extension(p) = (IF out_format = "json"
                                          THEN ".json" ELSE ".md")

\* a run for format json that found two results
C22_Witness ==
    /\ script = "search.py" /\ RunOver
    /\ Len(results) = 2 /\ out_format = "json"
    /\ \E p \in fs : Extension(p) = ".json"


-----------------------------------------------------------------------------
(* specific_yt_transcripts.py: the order of the steps                      *)

\* the position main can be at after each position
StepEdges ==
    { <<"t_key", "t_argv">>, <<"t_argv", "t_download">>,
      <<"t_download", "t_upload">>, <<"t_upload", "t_request">>,
      <<"t_request", "poll_get">>, <<"poll_get", "poll_branch">>,
      <<"poll_branch", "poll_get">>, <<"poll_branch", "t_markdown">>,
      <<"t_markdown", "t_analyze">>, <<"t_analyze", "t_done">> }

AnalysisAttempted == "--- Gemini Analysis Results ---" \in printed
AnalysisSkipped ==
    "Skipping Gemini analysis as no transcript text was generated." \in printed

\* C24: main goes from each step to the next step only, or ends.  Without
\* the AssemblyAI key or without the URL argument nothing is downloaded,
\* sent or written and the run ends with exit code 1.  Each step has the
\* result of the step before it: an upload follows a finished download, a
\* transcription request a 200 answer to the upload, polling a 200 answer
\* to the request.  After a non-200 answer to the upload or the request the
\* exit code is 1 and no later step has run.  transcript.md exists only
\* after a poll result "completed".  At the end of main the Gemini analysis
\* was attempted if and only if the transcript text is non-empty and not
\* "No transcript available."; otherwise it was skipped.
C24_StepOrder ==
    /\ [][ (pc' # pc) => (<<pc, pc'>> \in StepEdges \/ pc' = "halt") ]_vars
    /\ [](script = "specific_yt_transcripts.py" =>
            /\ (AssemblyKey \notin env \/ ~has_arg) =>
                  /\ effects = {} /\ fs = {}
                  /\ RunOver => outcome = "exit1"
            /\ "remote" \in effects =>
                  "download" \in effects /\ <<"audio.mp3">> \in fs
            /\ job # "none" => "remote" \in effects
            /\ polls > 0 => job # "none"
            /\ "Error uploading file:" \in printed =>
                  /\ outcome = "exit1"
                  /\ job = "none" /\ polls = 0 /\ <<"transcript.md">> \notin fs
                  /\ ~AnalysisAttempted /\ ~AnalysisSkipped
            /\ "Error requesting transcription:" \in printed =>
                  /\ outcome = "exit1"
                  /\ job = "none" /\ polls = 0 /\ <<"transcript.md">> \notin fs
                  /\ ~AnalysisAttempted /\ ~AnalysisSkipped
            /\ <<"transcript.md">> \in fs =>
                  poll_result.status = "completed" /\ polls > 0
            /\ (AnalysisAttempted \/ AnalysisSkipped) =>
                  <<"transcript.md">> \in fs /\ pc = "t_done"
            /\ pc = "t_done" =>
                  /\ outcome = "returned"
                  /\ AnalysisAttempted <=>
                         (raw_transcript # "" /\ raw_transcript # NoTranscriptText)
                  /\ AnalysisSkipped <=> ~AnalysisAttempted)

\* the upload was answered with a status other than 200
C24_Witness ==
    /\ script = "specific_yt_transcripts.py"
    /\ outcome = "exit1" /\ "Error uploading file:" \in printed
    /\ <<"audio.mp3">> \in fs /\ job = "none"


-----------------------------------------------------------------------------
(* search_exa and the lists of its caller                                  *)

\* C21: after k calls of search_exa that got past the key lookup, a
\* non-empty exclude_domains list of the caller is the list it was with k
\* entries "en.wikipedia.org" appended (whether the requests raised or
\* not), and None or an empty list is as it was; a call that fails at the
\* key lookup changes nothing; no step changes the query or the
\* include_domains list.
C21_ListGrows ==
    /\ [](exclude_domains =
             (IF given # None /\ given # <<>>
              THEN given \o Rep(Wikipedia, calls) ELSE given))
    /\ [][ ((pc = "s_key" /\ ExaKey \notin env) =>
               (calls' = calls /\ exclude_domains' = exclude_domains)) ]_vars
    /\ [][ (include_domains' = include_domains /\ term' = term
               /\ given' = given) ]_vars

\* three calls with the list ["a.com"], the last request having raised
C21_Witness ==
    /\ given = <<"a.com">> /\ calls = 3
    /\ exclude_domains = <<"a.com", Wikipedia, Wikipedia, Wikipedia>>
    /\ pc = "s_branch" /\ results = <<>> /\ "Error during search:" \in printed


-----------------------------------------------------------------------------
(* analyze_transcript and the summaries file                               *)

\* the lines of the summaries file, and which of them open a section
SummaryLines == ReadLines(summaries)
SectionHeads ==
    { i \in 1..Len(SummaryLines) : StartsWith(SummaryLines[i], <<"## Video #">>) }
RuleLines == { i \in 1..Len(SummaryLines) : SummaryLines[i] = <<"---", NL>> }
\* the k-th section line, in file order
HeadAt(k) ==
    CHOOSE h \in SectionHeads : Cardinality({ x \in SectionHeads : x <= h }) = k

\* the summaries file has n sections "## Video #1" .. "## Video #n" in this
\* order, each with a "---" line before the next section or the end
SectionsNumbered(n) ==
    /\ Cardinality(SectionHeads) = n
    /\ \A k \in 1..n :
          /\ StartsWith(SummaryLines[HeadAt(k)],
                        <<"## Video #">> \o Str(k) \o <<": [">>)
          /\ \E r \in RuleLines :
                /\ r > HeadAt(k)
                /\ k < n => r < HeadAt(k + 1)

\* save_summaries_to_file was reached and its open() raised
SaveFailed ==
    pc = "m_done" /\ raised_in = "step3" /\ Len(analyses) = Len(videos)

\* C25 (as claimed): in a run that handed the records of
\* read_transcripts_file to the loop and is over (open() of the summaries
\* file not having failed), analyze_transcript returned for every record a
\* mapping with the record's title and url and the generated analysis or the
\* text "Error analyzing transcript: ...", and the summaries file was written
\* with one section per record, numbered in record order and closed by "---".
C25_AnalysisNeverRaises ==
    (script \in LoopScripts /\ LoopEntered /\ RunOver /\ ~SaveFailed) =>
        /\ Len(analyses) = Len(videos)
        /\ \A i \in 1..Len(videos) :
              /\ {"title", "url"} \subseteq DOMAIN videos[i]
              /\ analyses[i]["title"] = videos[i]["title"]
              /\ analyses[i]["url"] = videos[i]["url"]
              /\ \/ analyses[i]["analysis"] = GeneratedAnalysis
                 \/ StartsWith(analyses[i]["analysis"],
                               <<"Error analyzing transcript: ">>)
        /\ SummariesOutputFile(term) \in fs
        /\ SectionsNumbered(Len(videos))


-----------------------------------------------------------------------------
(* a failed fetch on its way through yt_workflow.main                      *)

\* the fetch of input video i failed: no video id, or the API raised
FetchFailed(i) == api_log[i] = NotCalled \/ api_log[i][1] = "raises"
\* read_transcripts_file has returned in yt_workflow.main
ReadOver == script = "yt_workflow.py" /\ LoopEntered
\* save_summaries_to_file has written the summaries file
Saved == script = "yt_workflow.py" /\ SummariesOutputFile(term) \in fs
\* the line that opens section j of the summaries file
SectionHead(j) ==
    <<"## Video #">> \o Str(j) \o <<": [">> \o videos[j]["title"]
        \o <<"](">> \o videos[j]["url"] \o <<")", NL>>

\* input video i is record j of the reader with this transcript, and once
\* the summaries file is written it was analysed and has section j
KeptAs(i, j, transcript) ==
    /\ j \in 1..Len(videos)
    /\ videos[j] = [title |-> in_videos[i]["title"],
                    url |-> in_videos[i]["url"],
                    transcript |-> transcript]
    /\ Saved =>
          /\ InSeq(<<"analyze", j>>, timeline)
          /\ analyses[j]["title"] = in_videos[i]["title"]
          /\ analyses[j]["url"] = in_videos[i]["url"]
          /\ InSeq(SectionHead(j), SummaryLines)

-----------------------------------------------------------------------------
(* read_transcripts_file, block by block                                   *)

\* the members of a set of line numbers, in file order
InOrder(S) ==
    [k \in 1..Cardinality(S) |->
        CHOOSE x \in S : Cardinality({ y \in S : y <= x }) = k]
Last(S) == CHOOSE x \in S : \A y \in S : y <= x

\* the blocks of the input by their starts, 0 for the lines before the
\* first "Video #" line
BlockStarts == {0} \cup VideoLineIdx
Inside(b) == (b + 1)..(BlockEndAfter(b) - 1)
TitleLinesOf(b) == { k \in Inside(b) : StartsWith(StrippedLine(k), TitlePrefix) }
UrlLinesOf(b) ==
    { k \in Inside(b) : /\ ~StartsWith(StrippedLine(k), TitlePrefix)
                        /\ StartsWith(StrippedLine(k), UrlPrefix) }
TextLinesOf(b) ==
    { m \in Inside(b) :
        /\ IsFreeText(StrippedLine(m))
        /\ \E k \in Inside(b) : k < m /\ StrippedLine(k) = TranscriptMark }

\* the record made of the lines of block b alone: the last Title and URL
\* line of the block if there is one, and its text lines joined by "\n"
RecordOfBlock(b) ==
    LET keys == {"transcript"}
                  \cup (IF TitleLinesOf(b) # {} THEN {"title"} ELSE {})
                  \cup (IF UrlLinesOf(b) # {} THEN {"url"} ELSE {})
    IN  [key \in keys |->
            IF key = "title"
            THEN DropFirst(StrippedLine(Last(TitleLinesOf(b))), 1)
            ELSE IF key = "url"
            THEN DropFirst(StrippedLine(Last(UrlLinesOf(b))), 1)
            ELSE Join(NL, [k \in 1..Cardinality(TextLinesOf(b)) |->
                              StrippedLine(InOrder(TextLinesOf(b))[k])])]

\* the blocks that give a record
RecordBlocks ==
    { b \in BlockStarts :
        /\ TitleLinesOf(b) \cup UrlLinesOf(b) # {}
        /\ TextLinesOf(b) # {} }

\* C27: read_transcripts_file returns one record for each block that gives
\* one, in the order of the blocks in the file, so at most as many records
\* as there are "Video #" lines plus one; title, url and transcript of a
\* record are those of the lines between its block's start and the next
\* "Video #" line, whatever the other blocks hold.
C27_RecordsApart ==
    pc = "done" =>
        /\ Len(videos) = Cardinality(RecordBlocks)
        /\ Len(videos) <= Cardinality(VideoLineIdx) + 1
        /\ \A k \in 1..Len(videos) :
              videos[k] = RecordOfBlock(InOrder(RecordBlocks)[k])

\* two different records were returned, from two "Video #" blocks
C27_Witness ==
    /\ pc = "done"
    /\ Len(videos) = 2 /\ videos[1] # videos[2]
    /\ Cardinality(VideoLineIdx) = 2


-----------------------------------------------------------------------------
(* the duplicated routines                                                 *)

\* C28: called with the same file, read_transcripts_file of yt_workflow.py
\* and of yt_summaries.py hold the same lines, videos, current_video,
\* current_transcript and reading_transcript whenever they are at the same
\* statement, raise the same exception class and return the same list; and
\* called with the same URL, get_video_id_from_url of yt_workflow.py and of
\* yt_transcripts.py return the same value.
C28_SameAsTwin ==
    (twin # TwinOff /\ InStep) =>
        /\ twin.lines = lines
        /\ twin.videos = videos
        /\ twin.current_video = current_video
        /\ twin.current_transcript = current_transcript
        /\ twin.reading_transcript = reading_transcript
        /\ twin.error = error
        /\ twin.video_id = video_id

\* both copies have returned two records
C28_Witness ==
    /\ pc = "done" /\ twin # TwinOff /\ twin.pc = "done"
    /\ Len(twin.videos) = 2 /\ videos[1] # videos[2]


-----------------------------------------------------------------------------
(* read_videos_from_file and the videos file                               *)

\* the stripped lines that take the URL branch, and the Title lines before
\* line i
UrlLineIdx ==
    { i \in 1..Len(lines) : /\ ~StartsWith(StrippedLine(i), TitleTag)
                            /\ StartsWith(StrippedLine(i), UrlTag) }
TitleLinesBefore(i) ==
    { k \in 1..(i - 1) : StartsWith(StrippedLine(k), TitleTag) }

\* the record of the URL line i: its text after "URL: " and the text after
\* "Title: " of the latest Title line before it, if there is one
RecordOfUrlLine(i) ==
    IF TitleLinesBefore(i) = {}
    THEN [url |-> DropFirst(StrippedLine(i), Len(UrlTag))]
    ELSE [title |-> DropFirst(StrippedLine(Last(TitleLinesBefore(i))),
                              Len(TitleTag)),
          url |-> DropFirst(StrippedLine(i), Len(UrlTag))]

\* one record per URL line, in file order
OnePerUrlLine ==
    /\ Len(videos) = Cardinality(UrlLineIdx)
    /\ \A k \in 1..Len(videos) :
          videos[k] = RecordOfUrlLine(InOrder(UrlLineIdx)[k])

\* the file read is the one save_results_to_file wrote for in_videos
Written == file = VideosFileText(in_videos, SearchTerm)
\* no line break in the title, no whitespace at its ends
CleanTitle(t) == (\A k \in 1..Len(t) : t[k] # NL) /\ Strip(t) = t
\* the titles and urls of in_videos came back, in order
SameTitlesAndUrls ==
    /\ Len(videos) = Len(in_videos)
    /\ \A i \in 1..Len(in_videos) :
          videos[i] = [title |-> in_videos[i]["title"],
                       url |-> in_videos[i]["url"]]

\* C23 (as claimed): read_videos_from_file returns one record per line that
\* starts with "URL: ", in file order, with the text after the prefix as
\* url and the text of the latest "Title: " line before it as title (no
\* title key when there is none); and for videos whose titles have no line
\* break and no whitespace at their ends, reading the file written by
\* save_results_to_file returns their titles and urls in order.
C23_RoundTripCleanTitles ==
    pc = "v_done" =>
        /\ OnePerUrlLine
        /\ ( /\ Written
             /\ \A i \in 1..Len(in_videos) : CleanTitle(in_videos[i]["title"]) )
           => SameTitlesAndUrls

\* C23 (amended): ... one record per line that, stripped of surrounding
\* whitespace, starts with "URL: " ...; and for videos whose titles are not
\* empty and have no line break and no whitespace at their ends, reading
\* the file written by save_results_to_file returns their titles and urls
\* in order, the view count discarded.
C23_RoundTripNonEmptyTitles ==
    pc = "v_done" =>
        /\ OnePerUrlLine
        /\ ( /\ Written
             /\ \A i \in 1..Len(in_videos) :
                   /\ in_videos[i]["title"] # <<>>
                   /\ CleanTitle(in_videos[i]["title"]) )
           => SameTitlesAndUrls

\* two videos with titles a and b and a view count written as 1,234,567
\* went through the file and came back
C23_Witness ==
    /\ pc = "v_done" /\ Written
    /\ Len(in_videos) = 2 /\ Len(videos) = 2
    /\ in_videos[1]["title"] = <<"a">> /\ in_videos[2]["title"] = <<"b">>
    /\ in_videos[1]["view_count"] = 1234567
    /\ \E k \in 1..Len(lines) :
          lines[k] = <<"View Count: ", "1", ",", "2", "3", "4", ",", "5", "6", "7", NL>>

====
